---------------------------- MODULE Spec2Model ----------------------------
(***************************************************************************)
(* rorchat: the polling message-delivery core.                             *)
(*                                                                         *)
(*   SpecReact  the message_reactions table and the two toggle handlers    *)
(*              (api/chat/reactions, api/admin/reactions) executed query   *)
(*              by query, requests overlapping.                            *)
(*   SpecMirror the same handlers one request at a time, and a client's    *)
(*              optimistic handleReaction.                                 *)
(*   SpecPage   the three read modes of GET /api/chat/messages.            *)
(*   SpecSync   the visitor client (app/page.tsx) against the message      *)
(*              store: bootstrap, poll, merge, loadMoreMessages,           *)
(*              sendMessage with its refresh fallback, sign-out.           *)
(*   SpecBoot   the get-or-create of POST /api/chat/bootstrap, query by    *)
(*              query, requests overlapping.                               *)
(*   SpecTyping the typing_status table under a clock: heartbeats, clears  *)
(*              and the reads of the counterpart's typing flag.            *)
(*   SpecWrite  the three create-message handlers (api/chat/messages,      *)
(*              api/chat/upload, api/admin/reply) query by query, their    *)
(*              push notifications, and the reads that attach reply_to.    *)
(*   SpecRead   the reads of GET /api/chat/messages and GET                *)
(*              /api/admin/messages over a store the handlers fill.        *)
(*   SpecOwner  the visitor handlers called by the owner of a conversation *)
(*              and by another visitor.                                    *)
(*   SpecDeliver the polling client against inserts of both parties whose  *)
(*              timestamps are taken at the start of the statement and     *)
(*              whose rows become visible at its commit.                   *)
(*   SpecConverge the visitor client's reactions of a message of its list  *)
(*              against the toggles of both parties, with fair polling.    *)
(*   SpecHeartbeat the typing signals of the visitor's page under a clock: *)
(*              keystrokes, the quiet-period timeout, sends.               *)
(*   SpecLimit  checkRateLimit under a clock, and the page's countdown     *)
(*              after a 429.                                               *)
(*   SpecCreate POST /api/chat/messages with every body it may be sent:    *)
(*              its rejections, the insert and the bump of updated_at.     *)
(***************************************************************************)
EXTENDS Integers, Sequences, FiniteSets, TLC

VARIABLES
    \* ---- SpecReact
    rows,          \* message_reactions: set of [id, message_id, user_id, is_admin, emoji]
    reqs,          \* the toggle requests in progress, one record per slot
    lastResp,      \* the response of the toggle request that returned last
    view,          \* a client's local reactions of one message
    \* ---- SpecPage
    table,         \* messages: set of [id, conversation_id, content, is_admin, created_at]
    walk,          \* a reader paging backward through one conversation
    \* ---- SpecSync, the server
    store,         \* messages of the visitor's conversation
    session,       \* the visitor's row of sessions exists and has not expired
    rateWindow,    \* userMessageTimestamps: sends counted in the current window
    adminTyping,   \* typing_status of the operator updated within 3 seconds
    \* ---- SpecSync, the Home component
    currentUser,
    conversationId,
    messages,
    hasMoreMessages,
    loadingMore,
    isAdminTyping,
    rateLimitCountdown,
    recentOptimistic,  \* Date.now() - lastOptimisticUpdateRef.current < 3000
    \* ---- SpecSync, the asynchronous operations in flight
    bootstrapOp,
    pollOps,
    loadMoreOp,
    sendOps,
    \* ---- SpecBoot
    conversations, \* conversations: set of [id, user_id]
    bootReqs,      \* the bootstrap requests in progress, one record per slot
    \* ---- SpecTyping
    now,           \* the database clock, in milliseconds
    typingStatus,  \* typing_status: set of [conversation_id, is_admin, updated_at]
    typingPost,    \* the last POST /api/chat/typing or /api/admin/typing and its status
    typingRead,    \* the last read of the counterpart's typing flag
    \* ---- SpecWrite
    posts,         \* messages: set of [id, conversation_id, content, is_admin,
                   \*                   created_at, reply_to_id, image_url]
    writeReqs,     \* the create-message requests in progress, one record per slot
    readResp,      \* the last response of a read of messages
    \* ---- SpecDeliver
    dbNow,         \* the database clock: now() of a statement that starts
    inserting,     \* rows of INSERT statements that have started and not committed
    \* ---- SpecConverge
    shown,         \* messages[i].reactions of the visitor's list, for message 1
    bootReactions, \* the reactions of message 1 in the bootstrap response in flight
    toggleCount,   \* reaction toggles started so far
    \* ---- SpecHeartbeat
    hbNow,         \* Date.now() of the visitor's page, in units of 500 ms
    lastTypingSent, \* lastTypingSentRef.current
    typingTimer,   \* the time the timeout of typingTimeoutRef is due, 0 when none is pending
    signals,       \* the POSTs to /api/chat/typing so far: [isTyping, at]
    \* ---- SpecLimit
    rlNow,         \* Date.now() of the server, in units of 500 ms
    userMessageTimestamps, \* the visitor's entry of the map of lib/validation
    allowedAt,     \* the times of the create-message requests allowed so far
    rateCheck,     \* the result of the last checkRateLimit call
    limitSend,     \* the visitor's send in flight and its response
    countdown,     \* rateLimitCountdown and the time its interval ticks next
    \* ---- SpecCreate
    lastActivity   \* conversations.updated_at, as the number of times it was set

reactVars == <<rows, reqs, lastResp, view>>

pageVars == <<table, walk>>

serverVars == <<store, session, rateWindow, adminTyping>>

homeVars == <<currentUser, conversationId, messages, hasMoreMessages, loadingMore,
              isAdminTyping, rateLimitCountdown, recentOptimistic>>

opVars == <<bootstrapOp, pollOps, loadMoreOp, sendOps>>

syncVars == <<serverVars, homeVars, opVars>>

bootVars == <<conversations, bootReqs>>

typingVars == <<now, typingStatus, typingPost, typingRead>>

writeVars == <<posts, writeReqs, readResp>>

deliverVars == <<dbNow, inserting>>

convergeVars == <<shown, bootReactions, toggleCount>>

heartbeatVars == <<hbNow, lastTypingSent, typingTimer, signals>>

limitVars == <<rlNow, userMessageTimestamps, allowedAt, rateCheck, limitSend, countdown>>

createVars == <<lastActivity>>

vars == <<reactVars, pageVars, syncVars, bootVars, typingVars, writeVars,
          deliverVars, convergeVars, heartbeatVars, limitVars, createVars>>

notReact == <<pageVars, syncVars, bootVars, typingVars, writeVars, deliverVars,
              convergeVars, heartbeatVars, limitVars,
    createVars>>

notPage == <<reactVars, syncVars, bootVars, typingVars, writeVars, deliverVars,
             convergeVars, heartbeatVars, limitVars,
    createVars>>

notSync == <<reactVars, pageVars, bootVars, typingVars, writeVars, deliverVars,
             convergeVars, heartbeatVars, limitVars,
    createVars>>

notBoot == <<reactVars, pageVars, syncVars, typingVars, writeVars, deliverVars,
             convergeVars, heartbeatVars, limitVars,
    createVars>>

notTyping == <<reactVars, pageVars, syncVars, bootVars, writeVars, deliverVars,
               convergeVars, heartbeatVars, limitVars,
    createVars>>

notWrite == <<reactVars, pageVars, syncVars, bootVars, typingVars, deliverVars,
              convergeVars, heartbeatVars, limitVars,
    createVars>>

notDeliver == <<reactVars, pageVars, syncVars, bootVars, typingVars, writeVars,
                convergeVars, heartbeatVars, limitVars,
    createVars>>

notConverge == <<pageVars, bootVars, typingVars, writeVars, deliverVars,
                 heartbeatVars, limitVars,
    createVars>>

notHeartbeat == <<reactVars, pageVars, syncVars, bootVars, typingVars, writeVars,
                  deliverVars, convergeVars, limitVars,
    createVars>>

notLimit == <<reactVars, pageVars, syncVars, bootVars, typingVars, writeVars,
              deliverVars, convergeVars, heartbeatVars,
    createVars>>

notCreate == <<reactVars, pageVars, syncVars, bootVars, typingVars, deliverVars,
              convergeVars, heartbeatVars, limitVars>>

----------------------------------------------------------------------------
(* Generic helpers on sequences and sets.                                  *)

Min(a, b) == IF a < b THEN a ELSE b

Max(a, b) == IF a > b THEN a ELSE b

Range(s) == {s[i] : i \in DOMAIN s}

\* Array.prototype.filter with the (element, index) callback.
RECURSIVE FilterIdx(_, _, _)
FilterIdx(s, Keep(_, _), i) ==
    IF i > Len(s) THEN <<>>
    ELSE (IF Keep(s[i], i) THEN <<s[i]>> ELSE <<>>) \o FilterIdx(s, Keep, i + 1)

\* Array.prototype.findIndex, 1-based; 0 when nothing matches (-1 in the code).
FindIndex(s, Test(_)) ==
    IF \E i \in DOMAIN s : Test(s[i])
    THEN CHOOSE i \in DOMAIN s : Test(s[i]) /\ \A j \in 1..(i - 1) : ~Test(s[j])
    ELSE 0

----------------------------------------------------------------------------
(* SpecReact: reactions.                                                   *)

\* The five emojis of ALLOWED_EMOJIS / REACTION_EMOJIS, by name.
ALLOWED_EMOJIS == {"thumbs", "heart", "joy", "wow", "cry"}

\* What a request body may carry as emoji: an allowed one or something else.
EmojiInputs == ALLOWED_EMOJIS \cup {"other"}

\* The emojis the overlapping requests of SpecReact are drawn from.
RaceEmojis == {"thumbs", "heart"}

\* Number of toggle requests that may be in progress at once.
MaxReq == 2

ReqSlots == 1..MaxReq

\* Visitors: visitor 1 owns the conversation of the message, visitor 2 does not.
Users == {1, 2}

\* The messages reacted to.
ReactMsgs == {1}

MsgOwner(m) == 1

\* A message id no message has.
NoSuchMsg == 0

\* user_id of an operator row (NULL).
NullUser == 0

IdleReq == [pc |-> "idle", is_admin |-> FALSE, user |-> NullUser,
            messageId |-> NoSuchMsg, emoji |-> "other", existing |-> 0]

NoResp == [status |-> 0, action |-> "none"]

NoView == [sync |-> "none", is_admin |-> FALSE, messageId |-> NoSuchMsg,
           reactions |-> <<>>, slot |-> 0]

\* The rows of one party on one message: the WHERE clause of the DELETE.
PartyRows(rs, m, user, isAdmin) ==
    {r \in rs : r.message_id = m /\ r.is_admin = isAdmin
                /\ (isAdmin \/ r.user_id = user)}

\* The SELECT of the toggle: the party's rows on the message with this emoji.
ExistingRows(rs, m, user, isAdmin, emoji) ==
    {r \in PartyRows(rs, m, user, isAdmin) : r.emoji = emoji}

\* Fault variant of DeleteById: every reaction on the row's message goes.
DeleteById_Message(rs, id) ==
    {r \in rs : \A x \in rs : x.id = id => r.message_id # x.message_id}

\* DELETE FROM message_reactions WHERE id = $1
DeleteById(rs, id) == {r \in rs : r.id # id}

\* Fault variant of DeleteOthers: the party's other reactions are not deleted.
DeleteOthers_Keep(rs, m, user, isAdmin) == rs

\* DELETE FROM message_reactions WHERE message_id = $1 AND <party>
DeleteOthers(rs, m, user, isAdmin) == rs \ PartyRows(rs, m, user, isAdmin)

\* A row id no row has and no request in progress refers to.
FreshId(rs, rq) ==
    LET used == {r.id : r \in rs} \cup {rq[s].existing : s \in DOMAIN rq}
    IN  CHOOSE i \in 1..(Cardinality(used) + 1) : i \notin used

\* INSERT INTO message_reactions (message_id, user_id, is_admin, emoji)
InsertRow(rs, rq, m, user, isAdmin, emoji) ==
    rs \cup {[id |-> FreshId(rs, rq), message_id |-> m,
              user_id |-> IF isAdmin THEN NullUser ELSE user,
              is_admin |-> isAdmin, emoji |-> emoji]}

\* getReactionsForMessages for one message: GROUP BY emoji with COUNT and BOOL_OR.
Aggregate(rs, m) ==
    {[emoji |-> e,
      count |-> Cardinality({r \in rs : r.message_id = m /\ r.emoji = e}),
      hasAdmin |-> \E r \in rs : r.message_id = m /\ r.emoji = e /\ r.is_admin,
      hasUser |-> \E r \in rs : r.message_id = m /\ r.emoji = e /\ ~r.is_admin]
     : e \in {r.emoji : r \in {x \in rs : x.message_id = m}}}

\* The arrays that list the groups of S once each: the response carries the groups
\* in the order the database returns the rows, which GROUP BY leaves open.
Orderings(S) ==
    {s \in [1..Cardinality(S) -> S] : \A i, j \in DOMAIN s : i # j => s[i] # s[j]}

\* At most one row of each party on each message.
OnePerParty(rs) ==
    \A m \in ReactMsgs :
        /\ Cardinality(PartyRows(rs, m, NullUser, TRUE)) <= 1
        /\ \A u \in Users : Cardinality(PartyRows(rs, m, u, FALSE)) <= 1

\* ---- the clients' optimistic toggle

RemoveAt(s, i) == SubSeq(s, 1, i - 1) \o SubSeq(s, i + 1, Len(s))

\* Array.prototype.map
MapSeq(s, F(_)) == [i \in 1..Len(s) |-> F(s[i])]

\* Fault variant of handleReaction: the party's flag stays on the other groups.
handleReaction_KeepOthers(reactions, emoji) ==
    LET existingIdx == FindIndex(reactions, LAMBDA r : r.emoji = emoji)
    IN  IF existingIdx > 0
        THEN LET existing == reactions[existingIdx]
             IN  IF existing.hasUser
                 THEN IF existing.count <= 1 /\ ~existing.hasAdmin
                      THEN RemoveAt(reactions, existingIdx)
                      ELSE [reactions EXCEPT ![existingIdx] =
                               [existing EXCEPT !.count = @ - 1, !.hasUser = FALSE]]
                 ELSE [reactions EXCEPT ![existingIdx] =
                          [existing EXCEPT !.count = @ + 1, !.hasUser = TRUE]]
        ELSE Append(reactions,
                    [emoji |-> emoji, count |-> 1, hasAdmin |-> FALSE, hasUser |-> TRUE])

\* handleReaction of the visitor page: the setMessages updater, for the message hit.
handleReaction(reactions, emoji) ==
    LET existingIdx == FindIndex(reactions, LAMBDA r : r.emoji = emoji)
    IN  IF existingIdx > 0
        THEN LET existing == reactions[existingIdx]
             IN  IF existing.hasUser
                 THEN \* remove the user's reaction
                      IF existing.count <= 1 /\ ~existing.hasAdmin
                      THEN RemoveAt(reactions, existingIdx)
                      ELSE [reactions EXCEPT ![existingIdx] =
                               [existing EXCEPT !.count = @ - 1, !.hasUser = FALSE]]
                 ELSE \* add the user's reaction, replacing any existing one
                      LET otherReactions ==
                              FilterIdx(reactions,
                                        LAMBDA r, i : i # existingIdx /\ ~r.hasUser, 1)
                      IN  Append(otherReactions,
                                 [existing EXCEPT !.count = @ + 1, !.hasUser = TRUE])
        ELSE \* remove the user's other reactions first
             LET cleanedReactions ==
                     SelectSeq(MapSeq(reactions,
                                      LAMBDA r : IF r.hasUser
                                                 THEN [r EXCEPT !.count = @ - 1,
                                                                !.hasUser = FALSE]
                                                 ELSE r),
                               LAMBDA r : r.count > 0)
             IN  Append(cleanedReactions,
                        [emoji |-> emoji, count |-> 1,
                         hasAdmin |-> FALSE, hasUser |-> TRUE])

\* handleReaction of the operator page: the same updater on the hasAdmin flag.
handleReactionAdmin(reactions, emoji) ==
    LET existingIdx == FindIndex(reactions, LAMBDA r : r.emoji = emoji)
    IN  IF existingIdx > 0
        THEN LET existing == reactions[existingIdx]
             IN  IF existing.hasAdmin
                 THEN IF existing.count <= 1 /\ ~existing.hasUser
                      THEN RemoveAt(reactions, existingIdx)
                      ELSE [reactions EXCEPT ![existingIdx] =
                               [existing EXCEPT !.count = @ - 1, !.hasAdmin = FALSE]]
                 ELSE LET otherReactions ==
                              FilterIdx(reactions,
                                        LAMBDA r, i : i # existingIdx /\ ~r.hasAdmin, 1)
                      IN  Append(otherReactions,
                                 [existing EXCEPT !.count = @ + 1, !.hasAdmin = TRUE])
        ELSE LET cleanedReactions ==
                     SelectSeq(MapSeq(reactions,
                                      LAMBDA r : IF r.hasAdmin
                                                 THEN [r EXCEPT !.count = @ - 1,
                                                                !.hasAdmin = FALSE]
                                                 ELSE r),
                               LAMBDA r : r.count > 0)
             IN  Append(cleanedReactions,
                        [emoji |-> emoji, count |-> 1,
                         hasAdmin |-> TRUE, hasUser |-> FALSE])

\* ---- the toggle handlers, one action per database query

\* The request passes the checks before the toggle: the emoji is an allowed one and
\* the message exists (operator) or lies in a conversation of the caller (visitor).
ToggleAccepted(isAdmin, user, m, e) ==
    /\ e \in ALLOWED_EMOJIS
    /\ m \in ReactMsgs
    /\ (isAdmin \/ MsgOwner(m) = user)

\* The status of a request the checks reject.
ToggleError(isAdmin, user, m, e) ==
    IF e \notin ALLOWED_EMOJIS THEN 400 ELSE 404

\* What a request on message m, not the view's own, does to the client's view: the
\* view no longer stands for "the server's reactions, then this toggle and nothing
\* else", and is dropped.
ViewDisturbed(m) ==
    IF view.messageId = m THEN NoView ELSE view

\* What the return of request r does to the client's view.
ViewReturned(r) ==
    IF view.sync = "toggled" /\ view.slot = r
    THEN [view EXCEPT !.sync = "confirmed", !.slot = 0] ELSE view

\* POST: the request is rejected (Invalid emoji, Message not found).
ToggleReject(r) ==
    /\ reqs[r].pc = "idle"
    /\ \E isAdmin \in BOOLEAN, u \in Users, m \in ReactMsgs \cup {NoSuchMsg},
          e \in EmojiInputs :
          /\ ~ToggleAccepted(isAdmin, u, m, e)
          /\ lastResp' = [status |-> ToggleError(isAdmin, u, m, e),
                          action |-> "none"]
    /\ UNCHANGED <<rows, reqs, view>>

\* POST: the request passes the checks; the toggle starts.
ToggleBegin(r, emojis) ==
    /\ reqs[r].pc = "idle"
    /\ \E isAdmin \in BOOLEAN, u \in Users, m \in ReactMsgs, e \in emojis :
          /\ isAdmin => u = 1
          /\ ToggleAccepted(isAdmin, u, m, e)
          /\ reqs' = [reqs EXCEPT ![r] =
                         [pc |-> "select", is_admin |-> isAdmin,
                          user |-> IF isAdmin THEN NullUser ELSE u,
                          messageId |-> m, emoji |-> e, existing |-> 0]]
          /\ view' = ViewDisturbed(m)
    /\ UNCHANGED <<rows, lastResp>>

\* SELECT id FROM message_reactions WHERE message_id, party, emoji
ToggleSelect(r) ==
    /\ reqs[r].pc = "select"
    /\ LET q == reqs[r]
           existing == ExistingRows(rows, q.messageId, q.user, q.is_admin, q.emoji)
       IN  IF existing # {}
           THEN \E x \in existing :
                    reqs' = [reqs EXCEPT ![r].pc = "remove", ![r].existing = x.id]
           ELSE reqs' = [reqs EXCEPT ![r].pc = "replace"]
    /\ UNCHANGED <<rows, lastResp, view>>

\* existing.length > 0: DELETE the row found; { action: 'removed' }
ToggleRemove(r) ==
    /\ reqs[r].pc = "remove"
    /\ rows' = DeleteById(rows, reqs[r].existing)
    /\ lastResp' = [status |-> 200, action |-> "removed"]
    /\ reqs' = [reqs EXCEPT ![r] = IdleReq]
    /\ view' = ViewReturned(r)

\* else: DELETE any reaction of the party on the message
ToggleDeleteOthers(r) ==
    /\ reqs[r].pc = "replace"
    /\ rows' = DeleteOthers(rows, reqs[r].messageId, reqs[r].user, reqs[r].is_admin)
    /\ reqs' = [reqs EXCEPT ![r].pc = "insert"]
    /\ UNCHANGED <<lastResp, view>>

\* ... then INSERT the new one; { action: 'added' }
ToggleInsert(r) ==
    /\ reqs[r].pc = "insert"
    /\ rows' = InsertRow(rows, reqs, reqs[r].messageId, reqs[r].user,
                         reqs[r].is_admin, reqs[r].emoji)
    /\ lastResp' = [status |-> 200, action |-> "added"]
    /\ reqs' = [reqs EXCEPT ![r] = IdleReq]
    /\ view' = ViewReturned(r)

\* ---- a client

\* A read (bootstrap, initial load, the operator's refresh) delivers the message's
\* aggregated reactions to the client that shows it.
LoadView ==
    /\ view.sync \in {"none", "loaded"}
    /\ \E isAdmin \in BOOLEAN, m \in ReactMsgs :
        \E groups \in Orderings(Aggregate(rows, m)) :
            view' = [sync |-> "loaded", is_admin |-> isAdmin, messageId |-> m,
                     reactions |-> groups, slot |-> 0]
    /\ UNCHANGED <<rows, reqs, lastResp>>

\* The user of the client picks emoji e on the message: the optimistic update, then
\* the POST. Taken from a view that equals the server's aggregated reactions, with
\* one reaction per party in the store and no other toggle in progress.
HandleReaction ==
    /\ view.sync \in {"loaded", "confirmed"}
    /\ Range(view.reactions) = Aggregate(rows, view.messageId)
    /\ OnePerParty(rows)
    /\ \A s \in ReqSlots : reqs[s].pc = "idle"
    /\ \E e \in ALLOWED_EMOJIS :
          /\ view' = [view EXCEPT
                         !.sync = "toggled", !.slot = 1,
                         !.reactions = IF view.is_admin
                                       THEN handleReactionAdmin(@, e)
                                       ELSE handleReaction(@, e)]
          /\ reqs' = [reqs EXCEPT ![1] =
                         [pc |-> "select", is_admin |-> view.is_admin,
                          user |-> IF view.is_admin THEN NullUser
                                   ELSE MsgOwner(view.messageId),
                          messageId |-> view.messageId, emoji |-> e, existing |-> 0]]
    /\ UNCHANGED <<rows, lastResp>>

InitReactVars ==
    /\ rows = {}
    /\ reqs = [r \in ReqSlots |-> IdleReq]
    /\ lastResp = NoResp
    /\ view = NoView

----------------------------------------------------------------------------
(* The message store and the read modes of GET /api/chat/messages.         *)

\* const PAGE_SIZE = 25, scaled down so that a few messages fill several pages.
PAGE_SIZE == 2

\* const MAX_PAGE_SIZE = 50, scaled down alike (twice the page size).
MAX_PAGE_SIZE == 4

\* searchParams.get('before') / get('after') / body.replyToId when absent.
NoCursor == 0

\* No valid session: getUserFromSessionToken returns null.
NoUser == 0

\* Conversation c belongs to visitor c.
Convs == {1, 2}

ConvOwner(c) == c

\* limit = Math.min(Math.max(1, limitParam || PAGE_SIZE), MAX_PAGE_SIZE);
\* limitParam 0 stands for an absent or unparsable parameter (NaN) and for 0.
Limit(limitParam) ==
    Min(Max(1, IF limitParam = 0 THEN PAGE_SIZE ELSE limitParam), MAX_PAGE_SIZE)

ConvRows(ms, conv) == {m \in ms : m.conversation_id = conv}

\* x sorts before y under ORDER BY created_at ASC; rows of one timestamp come in
\* an order the database chooses, here by id.
Earlier(x, y) ==
    \/ x.created_at < y.created_at
    \/ x.created_at = y.created_at /\ x.id <= y.id

RECURSIVE OrderAsc(_)
OrderAsc(S) ==
    IF S = {} THEN <<>>
    ELSE LET first == CHOOSE x \in S : \A y \in S : Earlier(x, y)
         IN  <<first>> \o OrderAsc(S \ {first})

\* Array.prototype.reverse
Reverse(s) == [i \in 1..Len(s) |-> s[Len(s) + 1 - i]]

OrderDesc(S) == Reverse(OrderAsc(S))

\* LIMIT n, and rows.slice(0, n)
Take(s, n) == SubSeq(s, 1, Min(n, Len(s)))

\* SELECT created_at FROM messages WHERE id = $1 AND conversation_id = $2
CursorRows(ms, conv, id) == {m \in ConvRows(ms, conv) : m.id = id}

Response(status, error, found, hasMore) ==
    [status |-> status, error |-> error, messages |-> found, hasMore |-> hasMore]

\* Fault variant of ReadBefore: created_at <= the cursor's.
ReadBefore_Inclusive(ms, conv, limit, before) ==
    LET beforeRows == CursorRows(ms, conv, before)
    IN  IF beforeRows = {}
        THEN Response(400, "Invalid cursor", <<>>, FALSE)
        ELSE LET beforeTimestamp == (CHOOSE m \in beforeRows : TRUE).created_at
                 found == Take(OrderDesc({m \in ConvRows(ms, conv) :
                                             m.created_at <= beforeTimestamp}),
                               limit + 1)
             IN  Response(200, "", Reverse(Take(found, limit)), Len(found) > limit)

\* Fault variant of ReadBefore: the cursor lookup ignores conversation_id.
ReadBefore_AnyCursor(ms, conv, limit, before) ==
    LET beforeRows == {m \in ms : m.id = before}
    IN  IF beforeRows = {}
        THEN Response(400, "Invalid cursor", <<>>, FALSE)
        ELSE LET beforeTimestamp == (CHOOSE m \in beforeRows : TRUE).created_at
                 found == Take(OrderDesc({m \in ConvRows(ms, conv) :
                                             m.created_at < beforeTimestamp}),
                               limit + 1)
             IN  Response(200, "", Reverse(Take(found, limit)), Len(found) > limit)

\* if (before): the messages older than the cursor, newest first, LIMIT limit + 1,
\* the first limit of them reversed.
ReadBefore(ms, conv, limit, before) ==
    LET beforeRows == CursorRows(ms, conv, before)
    IN  IF beforeRows = {}
        THEN Response(400, "Invalid cursor", <<>>, FALSE)
        ELSE LET beforeTimestamp == (CHOOSE m \in beforeRows : TRUE).created_at
                 found == Take(OrderDesc({m \in ConvRows(ms, conv) :
                                             m.created_at < beforeTimestamp}),
                               limit + 1)
             IN  Response(200, "", Reverse(Take(found, limit)), Len(found) > limit)

\* else if (after): the messages newer than the cursor, oldest first, at most
\* MAX_PAGE_SIZE; none when the cursor is not a message of the conversation.
ReadAfter(ms, conv, after) ==
    LET afterRows == CursorRows(ms, conv, after)
    IN  IF afterRows # {}
        THEN LET afterTimestamp == (CHOOSE m \in afterRows : TRUE).created_at
             IN  Response(200, "",
                          Take(OrderAsc({m \in ConvRows(ms, conv) :
                                            m.created_at > afterTimestamp}),
                               MAX_PAGE_SIZE),
                          FALSE)
        ELSE Response(200, "", <<>>, FALSE)

\* else: the most recent messages, newest first, LIMIT limit + 1, reversed.
ReadInitial(ms, conv, limit) ==
    LET found == Take(OrderDesc(ConvRows(ms, conv)), limit + 1)
    IN  Response(200, "", Reverse(Take(found, limit)), Len(found) > limit)

\* GET /api/chat/messages, up to the messages and hasMore of the response.
GetMessages(ms, caller, conv, limitParam, before, after) ==
    IF caller = NoUser THEN Response(401, "Unauthorized", <<>>, FALSE)
    ELSE IF conv \notin Convs \/ ConvOwner(conv) # caller
    THEN Response(404, "Not found", <<>>, FALSE)
    ELSE IF before # NoCursor THEN ReadBefore(ms, conv, Limit(limitParam), before)
    ELSE IF after # NoCursor THEN ReadAfter(ms, conv, after)
    ELSE ReadInitial(ms, conv, Limit(limitParam))

\* ---- SpecPage: a reader pages backward through conversation 1

\* Number of messages in the store of SpecPage.
MaxTable == 5

\* The limit parameters tried: negative, absent, 1, above the default, above the cap.
LimitParams == {-1, 0, 1, PAGE_SIZE + 1, MAX_PAGE_SIZE + 1}

Row(id, conv, content, isAdmin, ts) ==
    [id |-> id, conversation_id |-> conv, content |-> content,
     is_admin |-> isAdmin, created_at |-> ts]

\* The stores of n messages over the two conversations. Ids are opaque to the code
\* (it only compares them for equality), so they are numbered in timestamp order;
\* a timestamp may repeat.
Tables(n) ==
    {{Row(i, c[i], "a", FALSE, t[i]) : i \in 1..n} :
        c \in [1..n -> Convs],
        t \in {f \in [1..n -> 1..n] : \A i \in 1..n : i > 1 => f[i - 1] <= f[i]}}

Ids(found) == [i \in 1..Len(found) |-> found[i].id]

NoRead == [before |-> NoCursor, status |-> 0, error |-> "", count |-> 0,
           hasMore |-> FALSE]

ReadOf(before, resp) ==
    [before |-> before, status |-> resp.status, error |-> resp.error,
     count |-> Len(resp.messages), hasMore |-> resp.hasMore]

PageOf(resp) == [messages |-> Ids(resp.messages), hasMore |-> resp.hasMore]

InitPageVars ==
    /\ table = {}
    /\ walk = [phase |-> "start", limitParam |-> 0, pages |-> <<>>, last |-> NoRead]

\* The initial/default read.
PageFirst ==
    /\ walk.phase = "start"
    /\ \E lp \in LimitParams :
         LET resp == GetMessages(table, 1, 1, lp, NoCursor, NoCursor)
         IN  walk' = [phase |-> IF resp.messages = <<>> THEN "done" ELSE "paging",
                      limitParam |-> lp,
                      pages |-> <<PageOf(resp)>>,
                      last |-> NoRead]
    /\ UNCHANGED table

\* A backward read with the oldest message of the previous page as the cursor.
PageBack ==
    /\ walk.phase = "paging"
    /\ LET before == walk.pages[Len(walk.pages)].messages[1]
           resp == GetMessages(table, 1, 1, walk.limitParam, before, NoCursor)
       IN  walk' = [walk EXCEPT
                       !.phase = IF resp.messages = <<>> THEN "done" ELSE "paging",
                       !.pages = Append(@, PageOf(resp)),
                       !.last = ReadOf(before, resp)]
    /\ UNCHANGED table

\* A backward read whose cursor is no message of the conversation; the reader
\* stops.
PageBadCursor ==
    /\ walk.phase \in {"paging", "done"}
    /\ \E before \in 1..(MaxTable + 1) :
         /\ before \notin {m.id : m \in ConvRows(table, 1)}
         /\ walk' = [walk EXCEPT
                        !.phase = "failed",
                        !.last = ReadOf(before,
                                        GetMessages(table, 1, 1, walk.limitParam,
                                                    before, NoCursor))]
    /\ UNCHANGED table

\* A read without a session, or of a conversation of somebody else; the reader
\* stops.
PageDenied ==
    /\ walk.phase \in {"paging", "done"}
    /\ \E caller \in {NoUser, 1}, conv \in Convs, before \in {NoCursor, 1} :
         /\ caller = NoUser \/ ConvOwner(conv) # caller
         /\ walk' = [walk EXCEPT
                        !.phase = "failed",
                        !.last = ReadOf(before,
                                        GetMessages(table, caller, conv,
                                                    walk.limitParam, before,
                                                    NoCursor))]
    /\ UNCHANGED table
----------------------------------------------------------------------------
(* The visitor client (Home, app/page.tsx) against the message store.      *)

\* Most messages the store of SpecSync holds.
MaxStore == 3

\* Most sends of the visitor in one behaviour.
MaxSend == 2

\* Most polls in flight at once (a fetch that outlives the 2 s interval).
MaxPoll == 1

\* const RATE_LIMIT_MAX_MESSAGES = 15, scaled down.
RATE_LIMIT_MAX_MESSAGES == 1

\* The visitor, and the conversation bootstrap gets or creates for them.
Visitor == 1

VisitorConv == 1

\* What the visitor types, and what the operator replies.
Contents == {"a", "b"}

AdminContent == "a"

\* An entry of the local list without an id.
NoId == 0

\* conversationId === null
NoConv == 0

NoResponse == Response(0, "", <<>>, FALSE)

\* The user of the request's session cookie.
Caller == IF session THEN Visitor ELSE NoUser

\* INSERT INTO messages ... RETURNING id: ids are opaque to the client; they are
\* numbered in insertion order and created_at DEFAULT NOW() grows with them.
InsertMessage(ms, content, isAdmin) ==
    ms \cup {Row(Cardinality(ms) + 1, VisitorConv, content, isAdmin, Cardinality(ms) + 1)}

\* The optimistic entry of sendMessage: no id, is_admin false.
Optimistic(content) == Row(NoId, VisitorConv, content, FALSE, 0)

\* for (let i = prev.length - 1; i >= 0; i--) if (prev[i].id) { lastMessageId = ... }
LastMessageId(prev) ==
    IF \E i \in DOMAIN prev : prev[i].id # NoId
    THEN prev[CHOOSE i \in DOMAIN prev :
                 /\ prev[i].id # NoId
                 /\ \A j \in DOMAIN prev : j > i => prev[j].id = NoId].id
    ELSE NoCursor

ExistingIds(prev) == {prev[i].id : i \in DOMAIN prev} \ {NoId}

NewMessages(prev, data) ==
    SelectSeq(data, LAMBDA m : m.id # NoId /\ m.id \notin ExistingIds(prev))

\* Fault variant of MergePoll: the id-less entries are never dropped.
MergePoll_KeepOptimistic(prev, data) ==
    IF NewMessages(prev, data) = <<>> THEN prev ELSE prev \o NewMessages(prev, data)

\* Fault variant of MergePoll: a new message takes the place of one id-less entry
\* only, the first that matches it; a later entry of the same content stays.
MergePoll_OnePerMessage(prev, data) ==
    LET newMessages == NewMessages(prev, data)
        Matched(m) == \E i \in DOMAIN newMessages :
                         /\ newMessages[i].content = m.content
                         /\ newMessages[i].is_admin = m.is_admin
        Keep(m, i) ==
            \/ m.id # NoId
            \/ ~Matched(m)
            \/ \E j \in 1..(i - 1) :
                  prev[j].id = NoId /\ prev[j].content = m.content
                                   /\ prev[j].is_admin = m.is_admin
    IN  IF newMessages = <<>> THEN prev
        ELSE FilterIdx(prev, Keep, 1) \o newMessages

\* The setMessages updater of the poll for a non-empty response: the messages not
\* yet present by id are appended, the id-less entries that one of them matches
\* on content and is_admin are dropped; nothing new returns prev.
MergePoll(prev, data) ==
    LET newMessages == NewMessages(prev, data)
    IN  IF newMessages = <<>> THEN prev
        ELSE SelectSeq(prev, LAMBDA m :
                 \/ m.id # NoId
                 \/ ~\E i \in DOMAIN newMessages :
                        /\ newMessages[i].content = m.content
                        /\ newMessages[i].is_admin = m.is_admin)
             \o newMessages

\* ---- the operations in flight

\* cancelled is the flag of the effect's closure (bootstrap and poll only); left
\* records that the visitor signed out while the operation was in flight.
IdleOp == [phase |-> "idle", cancelled |-> FALSE, left |-> FALSE,
           cursor |-> NoCursor, resp |-> NoResponse, adminTyping |-> FALSE]

Requested(cursor) == [IdleOp EXCEPT !.phase = "requested", !.cursor = cursor]

PollSlots == 1..MaxPoll

\* A send: the POST, then on a failure the refresh GET. left is set when the
\* visitor signed out while the send was in flight.
SendOp(content) ==
    [content |-> content, phase |-> "posting", status |-> 0, left |-> FALSE,
     resp |-> NoResponse]

InFlight(op) == op.phase \in {"requested", "responded"}

\* The visitor has signed in (handleAuth or checkAuth set currentUser) and the
\* bootstrap effect has sent its request; the conversation is empty.
InitSyncVars ==
    /\ store = {}
    /\ session = TRUE
    /\ rateWindow = 0
    /\ adminTyping = FALSE
    /\ currentUser = TRUE
    /\ conversationId = NoConv
    /\ messages = <<>>
    /\ hasMoreMessages = FALSE
    /\ loadingMore = FALSE
    /\ isAdminTyping = FALSE
    /\ rateLimitCountdown = 0
    /\ recentOptimistic = FALSE
    /\ bootstrapOp = Requested(NoCursor)
    /\ pollOps = [p \in PollSlots |-> IdleOp]
    /\ loadMoreOp = IdleOp
    /\ sendOps = <<>>

\* ---- the server and the clock

\* POST /api/admin/reply: the operator writes into the conversation (which exists
\* from the visitor's first visit on).
AdminReply ==
    /\ Cardinality(store) < MaxStore
    /\ store' = InsertMessage(store, AdminContent, TRUE)
    /\ UNCHANGED <<session, rateWindow, adminTyping, homeVars, opVars>>

\* The operator starts typing, or the 3 seconds of their typing_status pass.
AdminTyping ==
    /\ adminTyping' = ~adminTyping
    /\ UNCHANGED <<store, session, rateWindow, homeVars, opVars>>

\* sessions.expires_at passes.
SessionExpires ==
    /\ session
    /\ session' = FALSE
    /\ UNCHANGED <<store, rateWindow, adminTyping, homeVars, opVars>>

\* The oldest timestamp of userMessageTimestamps leaves RATE_LIMIT_WINDOW_MS.
RateWindowSlides ==
    /\ rateWindow > 0
    /\ rateWindow' = rateWindow - 1
    /\ UNCHANGED <<store, session, adminTyping, homeVars, opVars>>

\* 3 seconds pass since lastOptimisticUpdateRef was set.
OptimisticWindowEnds ==
    /\ recentOptimistic
    /\ recentOptimistic' = FALSE
    /\ UNCHANGED <<serverVars, currentUser, conversationId, messages, hasMoreMessages,
                   loadingMore, isAdminTyping, rateLimitCountdown, opVars>>

\* The countdown timer reaches 0.
CountdownEnds ==
    /\ rateLimitCountdown > 0
    /\ rateLimitCountdown' = 0
    /\ UNCHANGED <<serverVars, currentUser, conversationId, messages, hasMoreMessages,
                   loadingMore, isAdminTyping, recentOptimistic, opVars>>

\* ---- bootstrap, sign-out

\* POST /api/chat/bootstrap: the most recent PAGE_SIZE messages.
BootstrapServe ==
    /\ bootstrapOp.phase = "requested"
    /\ bootstrapOp' = [bootstrapOp EXCEPT
           !.phase = "responded",
           !.resp = IF Caller = NoUser
                    THEN Response(401, "Unauthorized", <<>>, FALSE)
                    ELSE ReadInitial(store, VisitorConv, PAGE_SIZE)]
    /\ UNCHANGED <<serverVars, homeVars, pollOps, loadMoreOp, sendOps>>

\* bootstrap() after its awaits.
BootstrapReturn ==
    /\ bootstrapOp.phase = "responded"
    /\ bootstrapOp' = IdleOp
    /\ IF bootstrapOp.resp.status # 200 \/ bootstrapOp.cancelled
       THEN UNCHANGED <<conversationId, messages, hasMoreMessages>>
       ELSE /\ conversationId' = VisitorConv
            /\ messages' = bootstrapOp.resp.messages
            /\ hasMoreMessages' = bootstrapOp.resp.hasMore
    /\ UNCHANGED <<serverVars, currentUser, loadingMore, isAdminTyping,
                   rateLimitCountdown, recentOptimistic, pollOps, loadMoreOp, sendOps>>

Leave(op) == IF InFlight(op) THEN [op EXCEPT !.left = TRUE] ELSE op

Cancel(op) ==
    IF InFlight(op) THEN [op EXCEPT !.cancelled = TRUE, !.left = TRUE] ELSE op

\* handleSignOut: the session is deleted, then the three setters; the cleanups of
\* the bootstrap and poll effects set their cancelled flags.
SignOut ==
    /\ currentUser
    /\ session' = FALSE
    /\ currentUser' = FALSE
    /\ conversationId' = NoConv
    /\ messages' = <<>>
    /\ bootstrapOp' = Cancel(bootstrapOp)
    /\ pollOps' = [p \in PollSlots |-> Cancel(pollOps[p])]
    /\ loadMoreOp' = Leave(loadMoreOp)
    /\ sendOps' = [s \in DOMAIN sendOps |->
                      IF sendOps[s].phase = "finished" THEN sendOps[s]
                      ELSE [sendOps[s] EXCEPT !.left = TRUE]]
    /\ UNCHANGED <<store, rateWindow, adminTyping, hasMoreMessages, loadingMore,
                   isAdminTyping, rateLimitCountdown, recentOptimistic>>

\* ---- the poll

\* The interval callback up to its fetch; a callback takes the first free slot.
PollTick(p) ==
    /\ currentUser
    /\ conversationId # NoConv
    /\ ~recentOptimistic
    /\ pollOps[p].phase = "idle"
    /\ \A q \in PollSlots : q < p => pollOps[q].phase # "idle"
    /\ pollOps' = [pollOps EXCEPT ![p] = Requested(LastMessageId(messages))]
    /\ UNCHANGED <<serverVars, homeVars, bootstrapOp, loadMoreOp, sendOps>>

\* GET /api/chat/messages?conversationId=..[&after=..]
PollServe(p) ==
    /\ pollOps[p].phase = "requested"
    /\ pollOps' = [pollOps EXCEPT
           ![p].phase = "responded",
           ![p].resp = GetMessages(store, Caller, VisitorConv, 0, NoCursor,
                                   pollOps[p].cursor),
           ![p].adminTyping = (Caller # NoUser /\ adminTyping)]
    /\ UNCHANGED <<serverVars, homeVars, bootstrapOp, loadMoreOp, sendOps>>

\* The interval callback after its awaits.
PollReturn(p) ==
    LET op == pollOps[p]
        data == op.resp
    IN  /\ op.phase = "responded"
        /\ pollOps' = [pollOps EXCEPT ![p] = IdleOp]
        /\ IF data.status # 200 \/ op.cancelled
           THEN UNCHANGED <<messages, hasMoreMessages, isAdminTyping>>
           ELSE /\ IF Len(data.messages) > 0
                   THEN /\ messages' = MergePoll(messages, data.messages)
                        /\ UNCHANGED hasMoreMessages
                   ELSE IF op.cursor = NoCursor
                   THEN /\ messages' = data.messages
                        /\ hasMoreMessages' = data.hasMore
                   ELSE UNCHANGED <<messages, hasMoreMessages>>
                /\ isAdminTyping' = op.adminTyping
        /\ UNCHANGED <<serverVars, currentUser, conversationId, loadingMore,
                       rateLimitCountdown, recentOptimistic, bootstrapOp, loadMoreOp,
                       sendOps>>

\* ---- backward pagination

\* Fault variant of LoadMoreMessages: setLoadingMore(true) is left out.
LoadMoreMessages_NoMarker ==
    /\ conversationId # NoConv
    /\ hasMoreMessages
    /\ ~loadingMore
    /\ messages # <<>>
    /\ messages[1].id # NoId
    /\ loadMoreOp' = Requested(messages[1].id)
    /\ UNCHANGED <<serverVars, homeVars, bootstrapOp, pollOps, sendOps>>

\* loadMoreMessages up to its fetch, called by handleScroll near the top of the
\* list. The guards are those of the code; nothing else keeps a second call
\* from fetching while a fetch is in flight.
LoadMoreMessages ==
    /\ conversationId # NoConv
    /\ hasMoreMessages
    /\ ~loadingMore
    /\ messages # <<>>
    /\ messages[1].id # NoId
    /\ loadingMore' = TRUE
    /\ loadMoreOp' = Requested(messages[1].id)
    /\ UNCHANGED <<serverVars, currentUser, conversationId, messages, hasMoreMessages,
                   isAdminTyping, rateLimitCountdown, recentOptimistic, bootstrapOp,
                   pollOps, sendOps>>

\* GET /api/chat/messages?conversationId=..&before=..
LoadMoreServe ==
    /\ loadMoreOp.phase = "requested"
    /\ loadMoreOp' = [loadMoreOp EXCEPT
           !.phase = "responded",
           !.resp = GetMessages(store, Caller, VisitorConv, 0, loadMoreOp.cursor,
                                NoCursor)]
    /\ UNCHANGED <<serverVars, homeVars, bootstrapOp, pollOps, sendOps>>

\* Fault variant of LoadMoreReturn: a failed read leaves hasMore as it was.
LoadMoreReturn_Retry ==
    LET data == loadMoreOp.resp
    IN  /\ loadMoreOp.phase = "responded"
        /\ loadMoreOp' = IdleOp
        /\ IF data.status # 200
           THEN UNCHANGED <<hasMoreMessages, messages>>
           ELSE /\ hasMoreMessages' = data.hasMore
                /\ messages' = IF Len(data.messages) > 0
                               THEN data.messages \o messages
                               ELSE messages
        /\ loadingMore' = FALSE
        /\ UNCHANGED <<serverVars, currentUser, conversationId, isAdminTyping,
                       rateLimitCountdown, recentOptimistic, bootstrapOp, pollOps,
                       sendOps>>

\* loadMoreMessages after its awaits.
LoadMoreReturn ==
    LET data == loadMoreOp.resp
    IN  /\ loadMoreOp.phase = "responded"
        /\ loadMoreOp' = IdleOp
        /\ IF data.status # 200
           THEN /\ hasMoreMessages' = FALSE
                /\ UNCHANGED messages
           ELSE /\ hasMoreMessages' = data.hasMore
                /\ messages' = IF Len(data.messages) > 0
                               THEN data.messages \o messages
                               ELSE messages
        /\ loadingMore' = FALSE
        /\ UNCHANGED <<serverVars, currentUser, conversationId, isAdminTyping,
                       rateLimitCountdown, recentOptimistic, bootstrapOp, pollOps,
                       sendOps>>

\* ---- sending

\* sendMessage up to its fetch: the optimistic entry.
SendMessage(content) ==
    /\ conversationId # NoConv
    /\ rateLimitCountdown = 0
    /\ Len(sendOps) < MaxSend
    /\ recentOptimistic' = TRUE
    /\ messages' = Append(messages, Optimistic(content))
    /\ sendOps' = Append(sendOps, SendOp(content))
    /\ UNCHANGED <<serverVars, currentUser, conversationId, hasMoreMessages,
                   loadingMore, isAdminTyping, rateLimitCountdown, bootstrapOp,
                   pollOps, loadMoreOp>>

\* The status of POST /api/chat/messages.
PostStatus ==
    IF Caller = NoUser THEN 401
    ELSE IF rateWindow >= RATE_LIMIT_MAX_MESSAGES THEN 429
    ELSE 200

\* POST /api/chat/messages and sendMessage up to its next await: a response
\* that is not ok sets the countdown (429) and fetches the refresh.
Post(s) ==
    /\ sendOps[s].phase = "posting"
    /\ PostStatus = 200 => Cardinality(store) < MaxStore
    /\ store' = IF PostStatus = 200
                THEN InsertMessage(store, sendOps[s].content, FALSE)
                ELSE store
    /\ rateWindow' = IF PostStatus = 200 THEN rateWindow + 1 ELSE rateWindow
    /\ rateLimitCountdown' = IF PostStatus = 429 THEN 1 ELSE rateLimitCountdown
    /\ sendOps' = [sendOps EXCEPT
           ![s].status = PostStatus,
           ![s].phase = IF PostStatus = 200 THEN "finished" ELSE "refreshing"]
    /\ UNCHANGED <<session, adminTyping, currentUser, conversationId, messages,
                   hasMoreMessages, loadingMore, isAdminTyping, recentOptimistic,
                   bootstrapOp, pollOps, loadMoreOp>>

\* GET /api/chat/messages?conversationId=.. of the refresh.
RefreshServe(s) ==
    /\ sendOps[s].phase = "refreshing"
    /\ sendOps' = [sendOps EXCEPT
           ![s].phase = "refreshed",
           ![s].resp = GetMessages(store, Caller, VisitorConv, 0, NoCursor, NoCursor)]
    /\ UNCHANGED <<serverVars, homeVars, bootstrapOp, pollOps, loadMoreOp>>

\* if (refresh.ok) setMessages(refreshData.messages || [])
RefreshReturn(s) ==
    /\ sendOps[s].phase = "refreshed"
    /\ sendOps' = [sendOps EXCEPT ![s].phase = "finished", ![s].resp = NoResponse]
    /\ messages' = IF sendOps[s].resp.status = 200
                   THEN sendOps[s].resp.messages
                   ELSE messages
    /\ UNCHANGED <<serverVars, currentUser, conversationId, hasMoreMessages,
                   loadingMore, isAdminTyping, rateLimitCountdown, recentOptimistic,
                   bootstrapOp, pollOps, loadMoreOp>>
----------------------------------------------------------------------------
(* The get-or-create of POST /api/chat/bootstrap.                          *)

\* Most bootstrap requests in progress at once.
MaxBoot == 2

BootSlots == 1..MaxBoot

\* The visitors that sign in.
BootUsers == {1, 2}

\* conversationId is undefined: no row selected or created yet.
NoConversation == 0

IdleBoot == [pc |-> "idle", user |-> NoUser, conversationId |-> NoConversation,
             status |-> 0]

\* SELECT id FROM conversations WHERE user_id = $1
UserConversations(cs, user) == {c \in cs : c.user_id = user}

\* INSERT INTO conversations (user_id, ...) RETURNING id: a fresh id; the table
\* has no unique constraint on user_id.
CreateConversation(cs, user) ==
    cs \cup {[id |-> Cardinality(cs) + 1, user_id |-> user]}

InitBootVars ==
    /\ conversations = {}
    /\ bootReqs = [r \in BootSlots |-> IdleBoot]

\* No session: 401 before any query.
BootUnauthorized(r) ==
    /\ bootReqs[r].pc = "idle"
    /\ bootReqs' = [bootReqs EXCEPT ![r] = [IdleBoot EXCEPT !.pc = "done", !.status = 401]]
    /\ UNCHANGED conversations

\* getUserFromSessionToken returned the user.
BootBegin(r) ==
    /\ bootReqs[r].pc = "idle"
    /\ \E u \in BootUsers :
         bootReqs' = [bootReqs EXCEPT ![r] = [IdleBoot EXCEPT !.pc = "select", !.user = u]]
    /\ UNCHANGED conversations

\* SELECT id FROM conversations WHERE user_id = $1 LIMIT 1 (no ORDER BY: any of
\* the user's rows); conversationId = existingRows[0]?.id
BootSelect(r) ==
    /\ bootReqs[r].pc = "select"
    /\ LET existingRows == UserConversations(conversations, bootReqs[r].user)
       IN  IF existingRows = {}
           THEN bootReqs' = [bootReqs EXCEPT ![r].pc = "insert"]
           ELSE \E row \in existingRows :
                   bootReqs' = [bootReqs EXCEPT ![r].pc = "done",
                                                ![r].conversationId = row.id,
                                                ![r].status = 200]
    /\ UNCHANGED conversations

\* if (!conversationId) INSERT ... RETURNING id
BootInsert(r) ==
    /\ bootReqs[r].pc = "insert"
    /\ conversations' = CreateConversation(conversations, bootReqs[r].user)
    /\ LET createdRows == conversations' \ conversations
       IN  bootReqs' = [bootReqs EXCEPT
               ![r].pc = "done",
               ![r].status = 200,
               ![r].conversationId = (CHOOSE c \in createdRows : TRUE).id]

\* The response has been sent.
BootReturn(r) ==
    /\ bootReqs[r].pc = "done"
    /\ bootReqs' = [bootReqs EXCEPT ![r] = IdleBoot]
    /\ UNCHANGED conversations
----------------------------------------------------------------------------
(* typing_status and the typing flag of the message reads.                 *)

\* updated_at > now() - interval '3 seconds', in milliseconds.
TYPING_INTERVAL_MS == 3000

\* The clock of SpecTyping stops here.
MaxClock == 10000

\* The amounts of time that pass in one step.
TimeSteps == {1000, 2900, 3000}

\* The callers of /api/chat/typing; the operator is a caller of /api/admin/typing.
TypingCallers == {NoUser, 1, 2}

\* The conversation the requests of SpecTyping name.
TypingConv == 1

\* No typing_status row of the party.
NoRow == -1

TypingRow(conv, isAdmin, at) ==
    [conversation_id |-> conv, is_admin |-> isAdmin, updated_at |-> at]

\* INSERT ... ON CONFLICT (conversation_id, is_admin) DO UPDATE SET updated_at = now()
UpsertTyping(ts, conv, isAdmin, at) ==
    {t \in ts : ~(t.conversation_id = conv /\ t.is_admin = isAdmin)}
        \cup {TypingRow(conv, isAdmin, at)}

\* DELETE FROM typing_status WHERE conversation_id = $1 AND is_admin = ..
DeleteTyping(ts, conv, isAdmin) ==
    {t \in ts : ~(t.conversation_id = conv /\ t.is_admin = isAdmin)}

\* Fault variant of IsTyping: the row counts whatever its age.
IsTyping_AnyAge(ts, conv, isAdmin, at) ==
    \E t \in ts : t.conversation_id = conv /\ t.is_admin = isAdmin

\* SELECT 1 FROM typing_status WHERE conversation_id = $1 AND is_admin = ..
\*   AND updated_at > now() - interval '3 seconds' LIMIT 1;  typingRows.length > 0
IsTyping(ts, conv, isAdmin, at) ==
    \E t \in ts : /\ t.conversation_id = conv
                  /\ t.is_admin = isAdmin
                  /\ t.updated_at > at - TYPING_INTERVAL_MS

\* The time since the party's row was written; NoRow without a row.
RowAge(ts, conv, isAdmin, at) ==
    IF \E t \in ts : t.conversation_id = conv /\ t.is_admin = isAdmin
    THEN at - (CHOOSE t \in ts : t.conversation_id = conv /\ t.is_admin = isAdmin).updated_at
    ELSE NoRow

NoTypingPost == [caller |-> NoUser, is_admin |-> FALSE, status |-> 0]

NoTypingRead == [is_admin |-> FALSE, age |-> NoRow, typing |-> FALSE]

InitTypingVars ==
    /\ now = 0
    /\ typingStatus = {}
    /\ typingPost = NoTypingPost
    /\ typingRead = NoTypingRead

\* Time passes.
Tick ==
    /\ \E d \in TimeSteps : now + d <= MaxClock /\ now' = now + d
    /\ UNCHANGED <<typingStatus, typingPost, typingRead>>

\* The status of POST /api/chat/typing before it writes.
TypingStatusOf(caller, conv) ==
    IF caller = NoUser THEN 401
    ELSE IF conv \notin Convs \/ ConvOwner(conv) # caller THEN 404
    ELSE 200

\* POST /api/chat/typing
VisitorTyping(caller, isTyping) ==
    /\ typingPost' = [caller |-> caller, is_admin |-> FALSE,
                      status |-> TypingStatusOf(caller, TypingConv)]
    /\ typingStatus' =
          IF TypingStatusOf(caller, TypingConv) # 200 THEN typingStatus
          ELSE IF isTyping THEN UpsertTyping(typingStatus, TypingConv, FALSE, now)
          ELSE DeleteTyping(typingStatus, TypingConv, FALSE)
    /\ UNCHANGED <<now, typingRead>>

\* POST /api/admin/typing of the signed-in operator
OperatorTyping(isTyping) ==
    /\ typingPost' = [caller |-> NoUser, is_admin |-> TRUE, status |-> 200]
    /\ typingStatus' =
          IF isTyping THEN UpsertTyping(typingStatus, TypingConv, TRUE, now)
          ELSE DeleteTyping(typingStatus, TypingConv, TRUE)
    /\ UNCHANGED <<now, typingRead>>

\* GET /api/chat/messages reports adminTyping (isAdmin = TRUE); GET
\* /api/admin/messages reports userTyping (isAdmin = FALSE).
ReadTyping(isAdmin) ==
    /\ typingRead' = [is_admin |-> isAdmin,
                      age |-> RowAge(typingStatus, TypingConv, isAdmin, now),
                      typing |-> IsTyping(typingStatus, TypingConv, isAdmin, now)]
    /\ UNCHANGED <<now, typingStatus, typingPost>>
----------------------------------------------------------------------------
(* The create-message handlers and the reads that attach reply_to:         *)
(* app/api/chat/messages/route.ts (POST, GET), app/api/chat/upload/route.ts *)
(* (POST), app/api/admin/reply/route.ts (POST), app/api/admin/messages/     *)
(* route.ts (GET), lib/push (notifyAdminOfNewMessage, notifyUserOfReply).   *)

\* Number of messages in the store of SpecWrite.
MaxPosts == 3

\* Number of create-message requests in progress at once.
MaxWriters == 1

WriteSlots == 1..MaxWriters

\* replyToId absent (undefined, null or ''): `if (replyToId)` is false.
NoReply == 0

\* The operator, as the caller of a request that carries a valid admin session.
Operator == 3

\* A conversation id that names no row of conversations.
NoSuchConv == 3

\* The reply targets a request may name: none, and every id the store can hold.
ReplyInputs == 0..MaxPosts

\* The text of a request: empty after trim(), or valid.
TextInputs == {"", "hi"}

\* content of an image message ('📷 Image').
ImageContent == "Image"

\* The three handlers that create a message.
WriteKinds == {"text", "image", "reply"}

IdleWrite == [pc |-> "idle", kind |-> "text", caller |-> NoUser, conv |-> NoSuchConv,
              content |-> "", imageData |-> FALSE, replyToId |-> NoReply,
              status |-> 0, error |-> "", message |-> NoReply, push |-> "none"]

\* reply_to: null of a read response.
NoReplyTo == [id |-> NoReply, content |-> "", is_admin |-> FALSE]

NoReadResp == [caller |-> NoUser, conv |-> NoSuchConv, status |-> 0,
               messages |-> <<>>, summarized |-> {}]

\* isImageMessage ? 'Image' : (content ?? '').toString().trim()
ContentOf(q) ==
    IF q.kind = "image" \/ (q.kind = "reply" /\ q.imageData) THEN ImageContent
    ELSE q.content

\* The 400 of the body checks, "" when the body passes: imageData is required
\* (upload), Message cannot be empty / Message is required (text, reply).
BodyError(q) ==
    IF q.kind = "image" THEN (IF q.imageData THEN "" ELSE "imageData is required")
    ELSE IF q.kind = "reply" /\ q.imageData THEN ""
    ELSE IF q.content = "" THEN
        (IF q.kind = "text" THEN "Message cannot be empty" ELSE "Message is required")
    ELSE ""

\* Fault variant of OwnedConversations: AND user_id = $2 is left out.
OwnedConversations_Any(conv, caller) == {c \in Convs : c = conv}

\* SELECT id FROM conversations WHERE id = $1 AND user_id = $2 LIMIT 1
OwnedConversations(conv, caller) ==
    {c \in Convs : c = conv /\ ConvOwner(c) = caller}

\* The 404 of the two visitor handlers.
NotFoundError(kind) ==
    IF kind = "image" THEN "Conversation not found" ELSE "Not found"

\* Fault variant of ReplyTargetRows: the target may lie in any conversation.
ReplyTargetRows_AnyConversation(ps, conv, id) == {m \in ps : m.id = id}

\* SELECT id FROM messages WHERE id = $1 AND conversation_id = $2 LIMIT 1
ReplyTargetRows(ps, conv, id) ==
    {m \in ps : m.id = id /\ m.conversation_id = conv}

\* INSERT INTO messages (conversation_id, content, is_admin, reply_to_id, ...)
\* RETURNING id, ...: ids and timestamps are numbered in insertion order.
InsertPost(ps, q) ==
    ps \cup {[id |-> Cardinality(ps) + 1, conversation_id |-> q.conv,
              content |-> ContentOf(q), is_admin |-> q.kind = "reply",
              created_at |-> Cardinality(ps) + 1,
              reply_to_id |-> q.replyToId,
              image_url |-> q.kind = "image" \/ (q.kind = "reply" /\ q.imageData)]}

\* The handler's response and the end of the request: what stays of it is the
\* response, the row it inserted and the notification it started.
Answer(q, status, error) ==
    [IdleWrite EXCEPT !.pc = "done", !.status = status, !.error = error,
                      !.message = q.message, !.push = q.push]

\* Fault variant of Launch: the handler awaits the notification, which has
\* settled (here: failed) when the handler returns.
Launch_Awaited(q) == [q EXCEPT !.push = "failed"]

\* notifyAdminOfNewMessage(...).catch(() => {}) / notifyUserOfReply(...).catch(
\* () => {}): the promise is neither awaited nor allowed to reject.
Launch(q) == [q EXCEPT !.push = "pending"]

\* ---- the create-message handlers, one action per database query

\* POST up to the first query on conversations or messages: the session (401),
\* the rate limit of the visitor handlers (429), the body (400). allowed is the
\* outcome of checkRateLimit(user.id), which the visitor's sends of the last
\* minute decide.
WriteBegin(r) ==
    /\ writeReqs[r].pc \in {"idle", "done"}
    /\ \E kind \in WriteKinds, caller \in {NoUser, 1, 2, Operator},
          conv \in Convs \cup {NoSuchConv}, text \in TextInputs,
          image \in BOOLEAN, reply \in ReplyInputs, allowed \in BOOLEAN :
          LET q == [IdleWrite EXCEPT !.kind = kind, !.caller = caller, !.conv = conv,
                                     !.content = text, !.imageData = image,
                                     !.replyToId = reply]
          IN  /\ kind = "reply" <=> caller \in {NoUser, Operator}
              /\ kind = "reply" \/ caller = NoUser => allowed
              /\ kind = "text" => ~image
              /\ kind = "image" => text = ""
              /\ kind = "reply" /\ image => text = ""
              /\ conv = NoSuchConv => kind = "reply" /\ caller = Operator
              /\ writeReqs' = [writeReqs EXCEPT ![r] =
                    IF caller = NoUser THEN Answer(q, 401, "Unauthorized")
                    ELSE IF ~allowed THEN Answer(q, 429, "Too many messages")
                    ELSE IF BodyError(q) # "" THEN Answer(q, 400, BodyError(q))
                    ELSE [q EXCEPT !.pc = IF kind = "reply" THEN "target"
                                          ELSE "conversation"]]
    /\ UNCHANGED <<posts, readResp>>

\* Ensure this conversation belongs to the current user (visitor handlers).
WriteConversation(r) ==
    /\ writeReqs[r].pc = "conversation"
    /\ writeReqs' = [writeReqs EXCEPT ![r] =
          IF OwnedConversations(writeReqs[r].conv, writeReqs[r].caller) = {}
          THEN Answer(writeReqs[r], 404, NotFoundError(writeReqs[r].kind))
          ELSE [writeReqs[r] EXCEPT !.pc = "target"]]
    /\ UNCHANGED <<posts, readResp>>

\* Validate replyToId if provided.
WriteTarget(r) ==
    /\ writeReqs[r].pc = "target"
    /\ writeReqs' = [writeReqs EXCEPT ![r] =
          IF /\ writeReqs[r].replyToId # NoReply
             /\ ReplyTargetRows(posts, writeReqs[r].conv, writeReqs[r].replyToId) = {}
          THEN Answer(writeReqs[r], 400, "Reply target not found")
          ELSE [writeReqs[r] EXCEPT !.pc = "insert"]]
    /\ UNCHANGED <<posts, readResp>>

\* INSERT INTO messages. The operator's handler does not look the conversation
\* up: the insert of a conversation that does not exist fails on the foreign key
\* of messages.conversation_id, and the handler with it.
WriteInsert(r) ==
    /\ writeReqs[r].pc = "insert"
    /\ IF writeReqs[r].conv \notin Convs
       THEN /\ writeReqs' = [writeReqs EXCEPT ![r] =
                                Answer(writeReqs[r], 500, "Internal Server Error")]
            /\ UNCHANGED posts
       ELSE /\ Cardinality(posts) < MaxPosts
            /\ posts' = InsertPost(posts, writeReqs[r])
            /\ writeReqs' = [writeReqs EXCEPT ![r].pc = "inserted",
                                              ![r].message = Cardinality(posts) + 1]
    /\ UNCHANGED readResp

\* UPDATE conversations SET updated_at = now(); the notification is started;
\* return NextResponse.json({ message: inserted[0] }).
WriteReturn(r) ==
    /\ writeReqs[r].pc = "inserted"
    /\ writeReqs' = [writeReqs EXCEPT ![r] = Answer(Launch(writeReqs[r]), 200, "")]
    /\ UNCHANGED <<posts, readResp>>

\* The notification of a request settles: Promise.all over sendToSubscription
\* resolves, or the promise rejects and .catch(() => {}) swallows it. A job that
\* never settles stays pending.
PushSettles(r) ==
    /\ writeReqs[r].push = "pending"
    /\ \E outcome \in {"delivered", "failed"} :
          writeReqs' = [writeReqs EXCEPT ![r].push = outcome]
    /\ UNCHANGED <<posts, readResp>>

\* ---- the reads

\* getReplyToInfo(messageIds): per replying message among messageIds, the id,
\* content and is_admin of the message its reply_to_id names (LEFT JOIN: the
\* columns of a missing target are null).
getReplyToInfo(ps, messageIds) ==
    LET replying == {m \in ps : m.id \in messageIds /\ m.reply_to_id # NoReply}
    IN  [i \in {m.id : m \in replying} |->
            LET m == CHOOSE x \in replying : x.id = i
                targets == {t \in ps : t.id = m.reply_to_id}
            IN  IF targets = {}
                THEN [id |-> m.reply_to_id, content |-> "", is_admin |-> FALSE]
                ELSE LET t == CHOOSE x \in targets : TRUE
                     IN  [id |-> m.reply_to_id, content |-> t.content,
                          is_admin |-> t.is_admin]]

\* Fault variant of AttachReplyTo: the summary is the replying message's own.
AttachReplyTo_Self(found, replyInfo) ==
    [i \in 1..Len(found) |->
        [id |-> found[i].id, content |-> found[i].content,
         is_admin |-> found[i].is_admin, reply_to_id |-> found[i].reply_to_id,
         reply_to |-> IF found[i].id \in DOMAIN replyInfo
                      THEN [id |-> found[i].id, content |-> found[i].content,
                            is_admin |-> found[i].is_admin]
                      ELSE NoReplyTo]]

\* messages.map(msg => ({ ...msg, reply_to: replyInfo[msg.id] || null }))
AttachReplyTo(found, replyInfo) ==
    [i \in 1..Len(found) |->
        [id |-> found[i].id, content |-> found[i].content,
         is_admin |-> found[i].is_admin, reply_to_id |-> found[i].reply_to_id,
         reply_to |-> IF found[i].id \in DOMAIN replyInfo
                      THEN replyInfo[found[i].id] ELSE NoReplyTo]]

\* The response of a read, from the rows the handler selected.
ReadResponse(ps, caller, conv, status, found) ==
    [caller |-> caller, conv |-> conv, status |-> status,
     messages |-> AttachReplyTo(found, getReplyToInfo(ps, Range(Ids(found)))),
     summarized |-> DOMAIN getReplyToInfo(ps, Range(Ids(found)))]

\* GET /api/chat/messages
ReadMessages(ps, caller, conv, limitParam, before, after) ==
    LET resp == GetMessages(ps, caller, conv, limitParam, before, after)
    IN  ReadResponse(ps, caller, conv, resp.status, resp.messages)

\* GET /api/admin/messages: every message of the conversation, oldest first.
AdminReadMessages(ps, caller, conv) ==
    IF caller # Operator THEN ReadResponse(ps, caller, conv, 401, <<>>)
    ELSE ReadResponse(ps, caller, conv, 200, OrderAsc(ConvRows(ps, conv)))

\* The cursors a read names: none, after the first message, before the last.
ReadCursors == {<<NoCursor, NoCursor>>, <<NoCursor, 1>>, <<MaxPosts, NoCursor>>}

VisitorRead ==
    /\ \E caller \in {NoUser, 1, 2}, conv \in Convs, limitParam \in {0, 1},
          c \in ReadCursors :
          readResp' = ReadMessages(posts, caller, conv, limitParam, c[1], c[2])
    /\ UNCHANGED <<posts, writeReqs>>

OperatorRead ==
    /\ \E caller \in {NoUser, Operator}, conv \in Convs :
          readResp' = AdminReadMessages(posts, caller, conv)
    /\ UNCHANGED <<posts, writeReqs>>

InitWriteVars ==
    /\ posts = {}
    /\ writeReqs = [r \in WriteSlots |-> IdleWrite]
    /\ readResp = NoReadResp

----------------------------------------------------------------------------
(* Inserts as the database runs them: created_at DEFAULT NOW() is read when   *)
(* the statement starts, the row is visible to the reads from its commit on.  *)

\* Number of messages inserted in SpecDeliver; no more than PAGE_SIZE, so that
\* the initial read returns every message there is.
MaxInserts == 2

\* The last reading of the database clock.
MaxTime == 2

\* INSERT INTO messages (conversation_id, content, is_admin, ...) starts: the row
\* gets its id and created_at = now().
InsertStarts(isAdmin) ==
    /\ Cardinality(store \cup inserting) < MaxInserts
    /\ inserting' = inserting \cup
          {Row(Cardinality(store \cup inserting) + 1, VisitorConv, AdminContent,
               isAdmin, dbNow)}
    /\ UNCHANGED dbNow

\* The statement commits: the reads see the row.
InsertCommits ==
    /\ \E m \in inserting :
          /\ store' = store \cup {m}
          /\ inserting' = inserting \ {m}
    /\ UNCHANGED <<dbNow, session, rateWindow, adminTyping, homeVars, opVars>>

\* Time passes between two statements.
ClockAdvances ==
    /\ dbNow < MaxTime
    /\ dbNow' = dbNow + 1
    /\ UNCHANGED inserting

InitDeliverVars ==
    /\ dbNow = 1
    /\ inserting = {}

----------------------------------------------------------------------------
(* SpecConverge: the reactions the visitor's page shows on a message.      *)

\* Most reaction toggles of both parties in one behaviour.
MaxToggles == 2

\* The message of the list that is reacted to.
ShownMsg == CHOOSE m \in ReactMsgs : TRUE

\* The request slots of the two parties.
OperatorSlot == CHOOSE r \in ReqSlots : \A q \in ReqSlots : r <= q

VisitorSlot == CHOOSE r \in ReqSlots : \A q \in ReqSlots : r >= q

\* POST /api/chat/bootstrap: the page of messages, each with the reactions
\* getReactionsForMessages aggregates for it.
BootstrapServeReactions ==
    /\ BootstrapServe
    /\ \E groups \in Orderings(Aggregate(rows, ShownMsg)) : bootReactions' = groups
    /\ UNCHANGED <<reactVars, shown, toggleCount>>

\* bootstrap() after its awaits: setMessages(data.messages) takes the reactions
\* of the response with the messages.
BootstrapReturnReactions ==
    /\ BootstrapReturn
    /\ shown' = IF bootstrapOp.resp.status # 200 \/ bootstrapOp.cancelled
                THEN shown
                ELSE IF ShownMsg \in ExistingIds(bootstrapOp.resp.messages)
                THEN bootReactions
                ELSE <<>>
    /\ bootReactions' = <<>>
    /\ UNCHANGED <<reactVars, toggleCount>>

\* The interval callback after its awaits. The list holds the message already, so
\* the message is not among newMessages and the merge keeps the entry of prev,
\* reactions included; the other branches leave the list as it is.
PollReturnReactions(p) ==
    /\ PollReturn(p)
    /\ ShownMsg \in ExistingIds(messages)
    /\ ShownMsg \notin ExistingIds(NewMessages(messages, pollOps[p].resp.messages))
    /\ UNCHANGED <<shown, bootReactions, toggleCount>>

\* The operator toggles an emoji on the message (admin page, POST
\* /api/admin/reactions).
OperatorReacts ==
    /\ toggleCount < MaxToggles
    /\ toggleCount' = toggleCount + 1
    /\ ToggleBegin(OperatorSlot, RaceEmojis)
    /\ reqs'[OperatorSlot].is_admin
    /\ UNCHANGED <<syncVars, shown, bootReactions>>

\* handleReaction of the visitor page: the optimistic update, then the POST,
\* whose outcome is not looked at. The request reaches the handler and starts
\* the toggle, or fails on the way and changes nothing on the server.
VisitorReacts(emoji) ==
    /\ toggleCount < MaxToggles
    /\ toggleCount' = toggleCount + 1
    /\ conversationId # NoConv
    /\ ShownMsg \in ExistingIds(messages)
    /\ reqs[VisitorSlot].pc = "idle"
    /\ recentOptimistic' = TRUE
    /\ shown' = handleReaction(shown, emoji)
    /\ \E delivered \in BOOLEAN :
          reqs' = IF delivered /\ Caller # NoUser
                  THEN [reqs EXCEPT ![VisitorSlot] =
                           [pc |-> "select", is_admin |-> FALSE, user |-> Visitor,
                            messageId |-> ShownMsg, emoji |-> emoji, existing |-> 0]]
                  ELSE reqs
    /\ UNCHANGED <<rows, lastResp, view, serverVars, currentUser, conversationId,
                   messages, hasMoreMessages, loadingMore, isAdminTyping,
                   rateLimitCountdown, opVars, bootReactions>>

InitConvergeVars ==
    /\ shown = <<>>
    /\ bootReactions = <<>>
    /\ toggleCount = 0
----------------------------------------------------------------------------
(* SpecHeartbeat: the typing signals of the visitor's page.                *)

\* now - lastTypingSentRef.current < 1000
TYPING_DEBOUNCE_MS == 1000

\* setTimeout(() => sendTypingStatus(false), 2000)
TYPING_QUIET_MS == 2000

\* The clock advances in steps of 500 ms.
HbStep == 500

\* Number of clock steps of one behaviour.
MaxBeat == 8

\* Most keystrokes and sends that emit or may emit a signal.
MaxSignals == 4

Signal(isTyping, by) == [isTyping |-> isTyping, at |-> hbNow, by |-> by]

\* sendTypingStatus(isTyping) with a conversation: a typing=true less than a
\* second after the last signal is dropped; otherwise the time is recorded and
\* the POST is sent (fetch, not awaited).
sendTypingStatus(isTyping, by) ==
    IF isTyping /\ hbNow - lastTypingSent < TYPING_DEBOUNCE_MS
    THEN UNCHANGED <<lastTypingSent, signals>>
    ELSE /\ lastTypingSent' = hbNow
         /\ signals' = Append(signals, Signal(isTyping, by))

\* Time passes; a timeout that is due runs first.
HbTick ==
    /\ hbNow < TYPING_DEBOUNCE_MS + MaxBeat * HbStep
    /\ typingTimer = 0 \/ hbNow < typingTimer
    /\ hbNow' = hbNow + HbStep
    /\ UNCHANGED <<lastTypingSent, typingTimer, signals>>

\* handleTyping: a keystroke. The pending timeout is cleared and a new one set.
handleTyping ==
    /\ Len(signals) < MaxSignals
    /\ sendTypingStatus(TRUE, "key")
    /\ typingTimer' = hbNow + TYPING_QUIET_MS
    /\ UNCHANGED hbNow

\* The callback of the timeout.
TypingTimeout ==
    /\ typingTimer # 0
    /\ hbNow = typingTimer
    /\ sendTypingStatus(FALSE, "timeout")
    /\ typingTimer' = 0
    /\ UNCHANGED hbNow

\* Fault variant of ClearTyping: clearTimeout is left out.
ClearTyping_KeepTimer ==
    /\ Len(signals) < MaxSignals
    /\ sendTypingStatus(FALSE, "send")
    /\ UNCHANGED <<typingTimer, hbNow>>

\* sendMessage with valid content, 'Clear typing status': clearTimeout, then
\* sendTypingStatus(false).
ClearTyping ==
    /\ Len(signals) < MaxSignals
    /\ typingTimer' = 0
    /\ sendTypingStatus(FALSE, "send")
    /\ UNCHANGED hbNow

\* The page has been open for a second or more; nothing was typed yet.
InitHeartbeatVars ==
    /\ hbNow = TYPING_DEBOUNCE_MS
    /\ lastTypingSent = 0
    /\ typingTimer = 0
    /\ signals = <<>>
----------------------------------------------------------------------------
(* SpecLimit: the rate limit of create-message requests.                   *)

\* export const RATE_LIMIT_WINDOW_MS = 60_000, scaled down to 2 s.
RATE_LIMIT_WINDOW_MS == 2000

\* The limit of SpecLimit: export const RATE_LIMIT_MAX_MESSAGES = 15, scaled
\* down to one more than the limit of SpecSync.
LimitMax == RATE_LIMIT_MAX_MESSAGES + 1

\* The clock advances in steps of 500 ms.
RlStep == 500

\* Number of clock steps of one behaviour.
MaxRlSteps == 10

\* Most calls of checkRateLimit in one behaviour.
MaxChecks == 5

\* Math.ceil(x / 1000); the fault variant rounds down.
CeilSec_Floor(ms) == ms \div 1000

CeilSec(ms) == (ms + 999) \div 1000

\* timestamps.filter(ts => now - ts < RATE_LIMIT_WINDOW_MS)
RecentTimestamps(timestamps, t) ==
    SelectSeq(timestamps, LAMBDA ts : t - ts < RATE_LIMIT_WINDOW_MS)

\* Math.min(...recentTimestamps)
MinOf(s) == CHOOSE x \in Range(s) : \A y \in Range(s) : x <= y

\* Fault variant of checkRateLimit: the denied request is recorded as well.
checkRateLimit_RecordDenied(timestamps, t) ==
    LET recentTimestamps == RecentTimestamps(timestamps, t)
    IN  IF Len(recentTimestamps) >= LimitMax
        THEN [allowed |-> FALSE,
              retryAfterMs |-> RATE_LIMIT_WINDOW_MS - (t - MinOf(recentTimestamps)),
              timestamps |-> Append(recentTimestamps, t)]
        ELSE [allowed |-> TRUE, retryAfterMs |-> 0,
              timestamps |-> Append(recentTimestamps, t)]

\* checkRateLimit(userId) at Date.now() = t, for the visitor's entry of the map:
\* the result and the entry afterwards. A denied call does not write the entry.
checkRateLimit(timestamps, t) ==
    LET recentTimestamps == RecentTimestamps(timestamps, t)
    IN  IF Len(recentTimestamps) >= LimitMax
        THEN [allowed |-> FALSE,
              retryAfterMs |-> RATE_LIMIT_WINDOW_MS - (t - MinOf(recentTimestamps)),
              timestamps |-> timestamps]
        ELSE [allowed |-> TRUE, retryAfterMs |-> 0,
              timestamps |-> Append(recentTimestamps, t)]

\* Math.ceil((rateCheck.retryAfterMs || 60000) / 1000), the Retry-After header.
RetryAfterSec(retryAfterMs) ==
    CeilSec(IF retryAfterMs = 0 THEN RATE_LIMIT_WINDOW_MS ELSE retryAfterMs)

\* The number of calls made so far.
Checks == rateCheck.n

\* The call of checkRateLimit in a POST handler, after the session check.
RateLimitingCheck ==
    LET res == checkRateLimit(userMessageTimestamps, rlNow)
    IN  /\ Checks < MaxChecks
        /\ userMessageTimestamps' = res.timestamps
        /\ allowedAt' = IF res.allowed THEN Append(allowedAt, rlNow) ELSE allowedAt
        /\ rateCheck' = [allowed |-> res.allowed, retryAfterMs |-> res.retryAfterMs,
                         at |-> rlNow, n |-> Checks + 1]

\* others records a create-message request of the visitor from elsewhere since
\* the 429 of this send.
NoSend == [phase |-> "idle", status |-> 0, retryAfter |-> 0, first |-> FALSE,
           others |-> FALSE]

NoCountdown == [value |-> 0, tickAt |-> 0, seed |-> 0, ticks |-> 0,
                seeded |-> FALSE, others |-> FALSE]

\* Time passes.
RlTick ==
    /\ rlNow < MaxRlSteps * RlStep
    /\ rlNow' = rlNow + RlStep
    /\ UNCHANGED <<userMessageTimestamps, allowedAt, rateCheck, limitSend, countdown>>

\* sendMessage of the page up to its fetch: nothing is sent while the countdown
\* runs. first records that this is the first send after a countdown ran out
\* with no other create-message request of the visitor since the 429.
LimitSendMessage ==
    /\ limitSend.phase = "idle"
    /\ countdown.value = 0
    /\ limitSend' = [NoSend EXCEPT !.phase = "posting",
                                   !.first = countdown.seeded /\ ~countdown.others]
    /\ countdown' = NoCountdown
    /\ UNCHANGED <<rlNow, userMessageTimestamps, allowedAt, rateCheck>>

\* POST /api/chat/messages up to the rate limiting check: 429 with Retry-After,
\* or the request goes on (200 here).
LimitPost ==
    /\ limitSend.phase = "posting"
    /\ RateLimitingCheck
    /\ limitSend' = [limitSend EXCEPT
           !.phase = "responded",
           !.status = IF rateCheck'.allowed THEN 200 ELSE 429,
           !.retryAfter = IF rateCheck'.allowed THEN 0
                          ELSE RetryAfterSec(rateCheck'.retryAfterMs)]
    /\ UNCHANGED <<rlNow, countdown>>

\* sendMessage after its await: a 429 seeds the countdown with Retry-After; the
\* effect of the countdown sets its interval.
LimitReceive ==
    /\ limitSend.phase = "responded"
    /\ limitSend' = NoSend
    /\ countdown' = IF limitSend.status = 429
                    THEN [value |-> limitSend.retryAfter, tickAt |-> rlNow + 1000,
                          seed |-> limitSend.retryAfter, ticks |-> 0,
                          seeded |-> TRUE, others |-> limitSend.others]
                    ELSE countdown
    /\ UNCHANGED <<rlNow, userMessageTimestamps, allowedAt, rateCheck>>

\* The interval of the countdown effect fires, a second or more after it was
\* set: prev <= 1 gives 0, otherwise prev - 1; the effect sets a new interval.
CountdownTick ==
    /\ countdown.value > 0
    /\ rlNow >= countdown.tickAt
    /\ countdown' = [countdown EXCEPT
           !.value = IF @ <= 1 THEN 0 ELSE @ - 1,
           !.tickAt = rlNow + 1000,
           !.ticks = @ + 1]
    /\ UNCHANGED <<rlNow, userMessageTimestamps, allowedAt, rateCheck, limitSend>>

\* A create-message request of the same visitor from elsewhere (another tab, an
\* image upload), which the page's countdown does not hold back.
OtherRequest ==
    /\ RateLimitingCheck
    /\ countdown' = [countdown EXCEPT !.others = TRUE]
    /\ limitSend' = IF limitSend.phase = "posting"
                    THEN [limitSend EXCEPT !.first = FALSE]
                    ELSE IF limitSend.phase = "responded"
                    THEN [limitSend EXCEPT !.others = TRUE]
                    ELSE limitSend
    /\ UNCHANGED rlNow

InitLimitVars ==
    /\ rlNow = 0
    /\ userMessageTimestamps = <<>>
    /\ allowedAt = <<>>
    /\ rateCheck = [allowed |-> TRUE, retryAfterMs |-> 0, at |-> 0, n |-> 0]
    /\ limitSend = NoSend
    /\ countdown = NoCountdown
----------------------------------------------------------------------------
(* POST /api/chat/messages with the body it validates: lib/validation.ts   *)
(* (MAX_MESSAGE_LENGTH, ALLOWED_CHARS_REGEX, validateMessageContent) and    *)
(* app/api/chat/messages/route.ts (POST), including the update of           *)
(* conversations.updated_at.                                                *)

\* MAX_MESSAGE_LENGTH (500 in the source), scaled to the contents of the model.
MAX_MESSAGE_LENGTH == 2

\* The longest content a request of the model carries, in characters.
MaxContent == 3

\* Number of messages the requests of SpecCreate store.
MaxCreated == 2

\* The kinds of character that the handler tells apart: a letter, a space
\* (\p{Z}), a newline (a control character that trim() removes), another
\* control character, and an emoji outside the basic plane (two UTF-16 units).
Chars == {"letter", "space", "newline", "control", "emoji"}

\* What String.prototype.trim removes at both ends.
WhiteSpace == {"space", "newline"}

\* ALLOWED_CHARS_REGEX: \p{L} \p{N} \p{P} \p{S} \p{M} \p{Z} \p{Emoji}
\* \p{Emoji_Component}; control characters (\p{Cc}) are in none of them.
ALLOWED_CHARS == {"letter", "space", "emoji"}

\* The contents a request may carry; an absent content is '' (content ?? '').
ContentInputs == UNION {[1..n -> Chars] : n \in 0..MaxContent}

RECURSIVE TrimStart(_)
TrimStart(s) ==
    IF s # <<>> /\ Head(s) \in WhiteSpace THEN TrimStart(Tail(s)) ELSE s

RECURSIVE TrimEnd(_)
TrimEnd(s) ==
    IF s # <<>> /\ s[Len(s)] \in WhiteSpace THEN TrimEnd(SubSeq(s, 1, Len(s) - 1))
    ELSE s

\* String.prototype.trim
Trim(s) == TrimEnd(TrimStart(s))

\* String.prototype.length: the number of UTF-16 code units.
RECURSIVE UnitLength(_)
UnitLength(s) ==
    IF s = <<>> THEN 0
    ELSE (IF Head(s) = "emoji" THEN 2 ELSE 1) + UnitLength(Tail(s))

\* Fault variant of validateMessageContent: the length is not checked.
validateMessageContent_NoLength(content) ==
    LET trimmed == Trim(content)
    IN  IF trimmed = <<>> THEN "Message cannot be empty"
        ELSE IF \E i \in 1..Len(trimmed) : trimmed[i] \notin ALLOWED_CHARS
             THEN "Message contains invalid characters"
        ELSE ""

\* validateMessageContent(content): the error, "" for { valid: true }.
validateMessageContent(content) ==
    LET trimmed == Trim(content)
    IN  IF trimmed = <<>> THEN "Message cannot be empty"
        ELSE IF UnitLength(trimmed) > MAX_MESSAGE_LENGTH
             THEN "Message exceeds character limit"
        ELSE IF \E i \in 1..Len(trimmed) : trimmed[i] \notin ALLOWED_CHARS
             THEN "Message contains invalid characters"
        ELSE ""

\* POST /api/chat/messages up to its first query on conversations: the session
\* (401), checkRateLimit (429), then the body: conversationId (400;
\* hasConversationId is false for an absent, empty or non-string one) and the
\* content (400). The request goes on with message = content.trim().
CreateBegin(r) ==
    /\ writeReqs[r].pc \in {"idle", "done"}
    /\ Cardinality(posts) < MaxCreated
    /\ \E caller \in {NoUser} \cup Users, allowed \in BOOLEAN :
          IF caller = NoUser
          THEN writeReqs' = [writeReqs EXCEPT ![r] = Answer(IdleWrite, 401, "Unauthorized")]
          ELSE IF ~allowed
          THEN writeReqs' = [writeReqs EXCEPT ![r] =
                                Answer(IdleWrite, 429, "Too many messages")]
          ELSE \E hasConversationId \in BOOLEAN, content \in ContentInputs :
                  LET message == Trim(content)
                  IN  IF ~hasConversationId
                      THEN writeReqs' = [writeReqs EXCEPT ![r] =
                              Answer(IdleWrite, 400, "conversationId is required")]
                      ELSE IF validateMessageContent(message) # ""
                      THEN writeReqs' = [writeReqs EXCEPT ![r] =
                              Answer(IdleWrite, 400, validateMessageContent(message))]
                      ELSE \E conv \in Convs \cup {NoSuchConv}, reply \in ReplyInputs :
                              writeReqs' = [writeReqs EXCEPT ![r] =
                                  [IdleWrite EXCEPT !.pc = "conversation", !.kind = "text",
                                                    !.caller = caller, !.conv = conv,
                                                    !.content = message,
                                                    !.replyToId = reply]]
    /\ UNCHANGED <<posts, readResp, lastActivity>>

\* UPDATE conversations SET updated_at = now() WHERE id = $1, then the
\* notification is started and the handler returns { message: inserted[0] }.
CreateReturn(r) ==
    /\ WriteReturn(r)
    /\ lastActivity' = [lastActivity EXCEPT ![writeReqs[r].conv] = @ + 1]

\* No conversation has had a message yet.
InitCreateVars == lastActivity = [c \in Convs |-> 0]

----------------------------------------------------------------------------
(* The specifications.                                                     *)

InitReact == InitReactVars /\ InitPageVars /\ InitSyncVars /\ InitBootVars /\ InitTypingVars /\ InitWriteVars /\ InitDeliverVars /\ InitConvergeVars /\ InitHeartbeatVars /\ InitLimitVars /\ InitCreateVars

\* SpecReact: up to MaxReq requests in progress, their queries interleaved.
NextReact ==
    \/ \E r \in ReqSlots : ToggleReject(r) /\ UNCHANGED notReact
    \/ \E r \in ReqSlots : ToggleBegin(r, RaceEmojis) /\ UNCHANGED notReact
    \/ \E r \in ReqSlots : ToggleSelect(r) /\ UNCHANGED notReact
    \/ \E r \in ReqSlots : ToggleRemove(r) /\ UNCHANGED notReact
    \/ \E r \in ReqSlots : ToggleDeleteOthers(r) /\ UNCHANGED notReact
    \/ \E r \in ReqSlots : ToggleInsert(r) /\ UNCHANGED notReact

SpecReact == InitReact /\ [][NextReact]_vars

\* SpecMirror: one request at a time, over all the allowed emojis, and a client
\* that shows the message.
NextMirror ==
    \/ ToggleReject(1) /\ UNCHANGED notReact
    \/ ToggleBegin(1, ALLOWED_EMOJIS) /\ UNCHANGED notReact
    \/ ToggleSelect(1) /\ UNCHANGED notReact
    \/ ToggleRemove(1) /\ UNCHANGED notReact
    \/ ToggleDeleteOthers(1) /\ UNCHANGED notReact
    \/ ToggleInsert(1) /\ UNCHANGED notReact
    \/ LoadView /\ UNCHANGED notReact
    \/ HandleReaction /\ UNCHANGED notReact

SpecMirror == InitReact /\ [][NextMirror]_vars


\* SpecPage: a store of up to MaxTable messages, read page by page.
InitPage ==
    /\ InitReactVars
    /\ InitSyncVars
    /\ InitBootVars
    /\ InitTypingVars
    /\ InitWriteVars
    /\ InitDeliverVars /\ InitConvergeVars /\ InitHeartbeatVars /\ InitLimitVars /\ InitCreateVars
    /\ walk = [phase |-> "start", limitParam |-> 0, pages |-> <<>>, last |-> NoRead]
    /\ \E n \in 0..MaxTable : table \in Tables(n)

NextPage ==
    \/ PageFirst /\ UNCHANGED notPage
    \/ PageBack /\ UNCHANGED notPage
    \/ PageBadCursor /\ UNCHANGED notPage
    \/ PageDenied /\ UNCHANGED notPage

SpecPage == InitPage /\ [][NextPage]_vars


\* SpecSync: one signed-in visit of the visitor, up to and after their sign-out.
InitSync == InitReactVars /\ InitPageVars /\ InitSyncVars /\ InitBootVars /\ InitTypingVars /\ InitWriteVars /\ InitDeliverVars /\ InitConvergeVars /\ InitHeartbeatVars /\ InitLimitVars /\ InitCreateVars

NextSync ==
    \/ AdminReply /\ UNCHANGED notSync
    \/ AdminTyping /\ UNCHANGED notSync
    \/ SessionExpires /\ UNCHANGED notSync
    \/ RateWindowSlides /\ UNCHANGED notSync
    \/ OptimisticWindowEnds /\ UNCHANGED notSync
    \/ CountdownEnds /\ UNCHANGED notSync
    \/ BootstrapServe /\ UNCHANGED notSync
    \/ BootstrapReturn /\ UNCHANGED notSync
    \/ SignOut /\ UNCHANGED notSync
    \/ \E p \in PollSlots : PollTick(p) /\ UNCHANGED notSync
    \/ \E p \in PollSlots : PollServe(p) /\ UNCHANGED notSync
    \/ \E p \in PollSlots : PollReturn(p) /\ UNCHANGED notSync
    \/ LoadMoreMessages /\ UNCHANGED notSync
    \/ LoadMoreServe /\ UNCHANGED notSync
    \/ LoadMoreReturn /\ UNCHANGED notSync
    \/ \E c \in Contents : SendMessage(c) /\ UNCHANGED notSync
    \/ \E s \in DOMAIN sendOps : Post(s) /\ UNCHANGED notSync
    \/ \E s \in DOMAIN sendOps : RefreshServe(s) /\ UNCHANGED notSync
    \/ \E s \in DOMAIN sendOps : RefreshReturn(s) /\ UNCHANGED notSync

SpecSync == InitSync /\ [][NextSync]_vars

\* SpecBoot: up to MaxBoot bootstrap requests in progress, their queries interleaved.
InitBoot == InitReactVars /\ InitPageVars /\ InitSyncVars /\ InitBootVars /\ InitTypingVars /\ InitWriteVars /\ InitDeliverVars /\ InitConvergeVars /\ InitHeartbeatVars /\ InitLimitVars /\ InitCreateVars

NextBoot ==
    \/ \E r \in BootSlots : BootUnauthorized(r) /\ UNCHANGED notBoot
    \/ \E r \in BootSlots : BootBegin(r) /\ UNCHANGED notBoot
    \/ \E r \in BootSlots : BootSelect(r) /\ UNCHANGED notBoot
    \/ \E r \in BootSlots : BootInsert(r) /\ UNCHANGED notBoot
    \/ \E r \in BootSlots : BootReturn(r) /\ UNCHANGED notBoot

SpecBoot == InitBoot /\ [][NextBoot]_vars

\* SpecTyping: heartbeats, clears and reads of the typing flag while time passes.
InitTyping ==
    InitReactVars /\ InitPageVars /\ InitSyncVars /\ InitBootVars /\ InitTypingVars /\ InitWriteVars /\ InitDeliverVars /\ InitConvergeVars /\ InitHeartbeatVars /\ InitLimitVars /\ InitCreateVars

NextTyping ==
    \/ Tick /\ UNCHANGED notTyping
    \/ \E c \in TypingCallers, t \in BOOLEAN : VisitorTyping(c, t) /\ UNCHANGED notTyping
    \/ \E t \in BOOLEAN : OperatorTyping(t) /\ UNCHANGED notTyping
    \/ \E a \in BOOLEAN : ReadTyping(a) /\ UNCHANGED notTyping

SpecTyping == InitTyping /\ [][NextTyping]_vars

\* SpecWrite: create-message requests of the two visitors and the operator over
\* the two conversations, and their notifications.
InitWrite ==
    InitReactVars /\ InitPageVars /\ InitSyncVars /\ InitBootVars /\ InitTypingVars /\ InitWriteVars /\ InitDeliverVars /\ InitConvergeVars /\ InitHeartbeatVars /\ InitLimitVars /\ InitCreateVars

NextWrite ==
    \/ \E r \in WriteSlots : WriteBegin(r) /\ UNCHANGED notWrite
    \/ \E r \in WriteSlots : WriteConversation(r) /\ UNCHANGED notWrite
    \/ \E r \in WriteSlots : WriteTarget(r) /\ UNCHANGED notWrite
    \/ \E r \in WriteSlots : WriteInsert(r) /\ UNCHANGED notWrite
    \/ \E r \in WriteSlots : WriteReturn(r) /\ UNCHANGED notWrite
    \/ \E r \in WriteSlots : PushSettles(r) /\ UNCHANGED notWrite

SpecWrite == InitWrite /\ [][NextWrite]_vars

\* SpecRead: text messages and replies accumulate in the two conversations while
\* the visitors and the operator read them.
NextRead ==
    \/ \E r \in WriteSlots :
          /\ WriteBegin(r)
          /\ writeReqs'[r].pc # "done"
          /\ writeReqs'[r].kind # "image" /\ ~writeReqs'[r].imageData
          /\ writeReqs'[r].conv \in Convs
          /\ writeReqs'[r].kind = "text" => ConvOwner(writeReqs'[r].conv) = writeReqs'[r].caller
          /\ UNCHANGED notWrite
    \/ \E r \in WriteSlots : WriteConversation(r) /\ UNCHANGED notWrite
    \/ \E r \in WriteSlots : WriteTarget(r) /\ UNCHANGED notWrite
    \/ \E r \in WriteSlots : WriteInsert(r) /\ UNCHANGED notWrite
    \/ \E r \in WriteSlots : WriteReturn(r) /\ UNCHANGED notWrite
    \/ VisitorRead /\ UNCHANGED notWrite
    \/ OperatorRead /\ UNCHANGED notWrite

SpecRead == InitWrite /\ [][NextRead]_vars

\* SpecOwner: the visitor handlers that name a conversation or a message, called
\* with a session and a well-formed body by the owner and by the other visitor:
\* read, create (text, image), typing, reaction toggle, over a store of fewer
\* than MaxPosts - 1 messages.
NextOwner ==
    \/ \E r \in WriteSlots :
          /\ WriteBegin(r)
          /\ writeReqs'[r].pc = "conversation"
          /\ writeReqs'[r].replyToId = NoReply
          /\ UNCHANGED notWrite
    \/ \E r \in WriteSlots : WriteConversation(r) /\ UNCHANGED notWrite
    \/ \E r \in WriteSlots : WriteTarget(r) /\ UNCHANGED notWrite
    \/ \E r \in WriteSlots :
          WriteInsert(r) /\ Cardinality(posts') < MaxPosts - 1 /\ UNCHANGED notWrite
    \/ \E r \in WriteSlots : WriteReturn(r) /\ UNCHANGED notWrite
    \/ VisitorRead /\ readResp'.caller # NoUser /\ UNCHANGED notWrite
    \/ \E c \in TypingCallers \ {NoUser}, t \in BOOLEAN :
          VisitorTyping(c, t) /\ UNCHANGED notTyping
    \/ ToggleReject(1) /\ lastResp'.status = 404 /\ UNCHANGED notReact
    \/ ToggleBegin(1, {"thumbs"}) /\ ~reqs'[1].is_admin /\ UNCHANGED notReact
    \/ ToggleSelect(1) /\ UNCHANGED notReact
    \/ ToggleRemove(1) /\ UNCHANGED notReact
    \/ ToggleDeleteOthers(1) /\ UNCHANGED notReact
    \/ ToggleInsert(1) /\ UNCHANGED notReact

SpecOwner == InitWrite /\ [][NextOwner]_vars

\* SpecDeliver: a visitor's page that only polls, while both parties insert up
\* to MaxInserts messages from elsewhere.
NextDeliver ==
    \/ ClockAdvances /\ UNCHANGED notDeliver
    \/ \E a \in BOOLEAN : InsertStarts(a) /\ UNCHANGED notDeliver
    \/ InsertCommits
          /\ UNCHANGED <<reactVars, pageVars, bootVars, typingVars, writeVars, convergeVars,
                       heartbeatVars, limitVars, createVars>>
    \/ BootstrapServe /\ UNCHANGED notSync
    \/ BootstrapReturn /\ UNCHANGED notSync
    \/ \E p \in PollSlots : PollTick(p) /\ UNCHANGED notSync
    \/ \E p \in PollSlots : PollServe(p) /\ UNCHANGED notSync
    \/ \E p \in PollSlots : PollReturn(p) /\ UNCHANGED notSync

SpecDeliver == InitWrite /\ [][NextDeliver]_vars

\* SpecConverge: the visitor's page shows message 1 of their conversation; both
\* parties toggle reactions on it, up to MaxToggles times in all, the operator
\* writes, and the page keeps polling.
InitConverge ==
    /\ InitReactVars /\ InitPageVars /\ InitBootVars /\ InitTypingVars
    /\ InitWriteVars /\ InitDeliverVars /\ InitConvergeVars /\ InitHeartbeatVars /\ InitLimitVars /\ InitCreateVars
    /\ store = InsertMessage({}, AdminContent, TRUE)
    /\ session = TRUE
    /\ rateWindow = 0
    /\ adminTyping = FALSE
    /\ currentUser = TRUE
    /\ conversationId = NoConv
    /\ messages = <<>>
    /\ hasMoreMessages = FALSE
    /\ loadingMore = FALSE
    /\ isAdminTyping = FALSE
    /\ rateLimitCountdown = 0
    /\ recentOptimistic = FALSE
    /\ bootstrapOp = Requested(NoCursor)
    /\ pollOps = [p \in PollSlots |-> IdleOp]
    /\ loadMoreOp = IdleOp
    /\ sendOps = <<>>

ConvergeBootstrapServe == BootstrapServeReactions /\ UNCHANGED notConverge

ConvergeBootstrapReturn == BootstrapReturnReactions /\ UNCHANGED notConverge

ConvergeOperatorReacts == OperatorReacts /\ UNCHANGED notConverge

ConvergeVisitorReacts == (\E e \in RaceEmojis : VisitorReacts(e)) /\ UNCHANGED notConverge

ConvergeSelect == (\E r \in ReqSlots : ToggleSelect(r)) /\ UNCHANGED notReact

ConvergeRemove == (\E r \in ReqSlots : ToggleRemove(r)) /\ UNCHANGED notReact

ConvergeDeleteOthers == (\E r \in ReqSlots : ToggleDeleteOthers(r)) /\ UNCHANGED notReact

ConvergeInsert == (\E r \in ReqSlots : ToggleInsert(r)) /\ UNCHANGED notReact

ConvergeWindowEnds == OptimisticWindowEnds /\ UNCHANGED notSync

ConvergePollTick == (\E p \in PollSlots : PollTick(p)) /\ UNCHANGED notSync

ConvergePollServe == (\E p \in PollSlots : PollServe(p)) /\ UNCHANGED notSync

ConvergePollReturn == (\E p \in PollSlots : PollReturnReactions(p)) /\ UNCHANGED notSync

NextConverge ==
    \/ ConvergeBootstrapServe
    \/ ConvergeBootstrapReturn
    \/ ConvergeOperatorReacts
    \/ ConvergeVisitorReacts
    \/ ConvergeSelect
    \/ ConvergeRemove
    \/ ConvergeDeleteOthers
    \/ ConvergeInsert
    \/ ConvergeWindowEnds
    \/ ConvergePollTick
    \/ ConvergePollServe
    \/ ConvergePollReturn
    \/ AdminReply /\ UNCHANGED notSync

\* The server answers every request, the interval and the 3 s window run on, and
\* nobody is obliged to toggle or to write.
SpecConverge ==
    /\ InitConverge
    /\ [][NextConverge]_vars
    /\ WF_vars(ConvergeBootstrapServe) /\ WF_vars(ConvergeBootstrapReturn)
    /\ WF_vars(ConvergeSelect) /\ WF_vars(ConvergeRemove)
    /\ WF_vars(ConvergeDeleteOthers) /\ WF_vars(ConvergeInsert)
    /\ WF_vars(ConvergeWindowEnds)
    /\ WF_vars(ConvergePollTick) /\ WF_vars(ConvergePollServe)
    /\ WF_vars(ConvergePollReturn)

\* SpecHeartbeat: keystrokes and sends of the visitor while time passes.
InitHeartbeat ==
    InitReactVars /\ InitPageVars /\ InitSyncVars /\ InitBootVars /\ InitTypingVars /\ InitWriteVars /\ InitDeliverVars /\ InitConvergeVars /\ InitHeartbeatVars /\ InitLimitVars /\ InitCreateVars

NextHeartbeat ==
    \/ HbTick /\ UNCHANGED notHeartbeat
    \/ handleTyping /\ UNCHANGED notHeartbeat
    \/ TypingTimeout /\ UNCHANGED notHeartbeat
    \/ ClearTyping /\ UNCHANGED notHeartbeat

SpecHeartbeat == InitHeartbeat /\ [][NextHeartbeat]_vars

\* SpecLimit: the visitor's page sends, other requests of the same visitor
\* arrive, and time passes.
InitLimit ==
    InitReactVars /\ InitPageVars /\ InitSyncVars /\ InitBootVars /\ InitTypingVars /\ InitWriteVars /\ InitDeliverVars /\ InitConvergeVars /\ InitHeartbeatVars /\ InitLimitVars /\ InitCreateVars

NextLimit ==
    \/ RlTick /\ UNCHANGED notLimit
    \/ LimitSendMessage /\ UNCHANGED notLimit
    \/ LimitPost /\ UNCHANGED notLimit
    \/ LimitReceive /\ UNCHANGED notLimit
    \/ CountdownTick /\ UNCHANGED notLimit
    \/ OtherRequest /\ UNCHANGED notLimit

SpecLimit == InitLimit /\ [][NextLimit]_vars

\* SpecCreate: the visitors' POST /api/chat/messages, one request after the
\* other, over every content of up to MaxContent characters.
NextCreate ==
    \/ \E r \in WriteSlots : CreateBegin(r) /\ UNCHANGED notCreate
    \/ \E r \in WriteSlots : WriteConversation(r) /\ UNCHANGED notWrite
    \/ \E r \in WriteSlots : WriteTarget(r) /\ UNCHANGED notWrite
    \/ \E r \in WriteSlots : WriteInsert(r) /\ UNCHANGED notWrite
    \/ \E r \in WriteSlots : CreateReturn(r) /\ UNCHANGED notCreate

SpecCreate == InitWrite /\ [][NextCreate]_vars
----------------------------------------------------------------------------
(* Reactions: the claims.                                                  *)

AllIdle == \A r \in ReqSlots : reqs[r].pc = "idle"

\* The groups of the aggregated read of message m that carry the party's flag.
FlaggedGroups(rs, m, isAdmin) ==
    {g \in Aggregate(rs, m) : IF isAdmin THEN g.hasAdmin ELSE g.hasUser}

\* C3: with the toggle requests executed one after the other, the store holds at
\* most one reaction row of each party on each message, and the aggregated read
\* has at most one group with that party's flag, whose count is at least 1.
C3_SingleOwnership ==
    /\ OnePerParty(rows)
    /\ \A m \in ReactMsgs, isAdmin \in BOOLEAN :
          /\ Cardinality(FlaggedGroups(rows, m, isAdmin)) <= 1
          /\ \A g \in FlaggedGroups(rows, m, isAdmin) : g.count >= 1

\* C3 witness: toggles of both parties have returned, the last one adding a
\* reaction, and each party holds one reaction on the message.
C3_Witness ==
    /\ AllIdle
    /\ lastResp.action = "added"
    /\ \E a, b \in rows :
          a.is_admin /\ ~b.is_admin /\ a.emoji = "cry" /\ b.emoji = "wow"

\* C4: whatever the interleaving of the queries of two overlapping toggle requests
\* of one party on one message, once they have returned the store holds at most
\* one reaction of that party on that message.
C4_AtomicToggle == AllIdle => OnePerParty(rows)

\* C5: after the client's handleReaction(e) on a view equal to the server's
\* aggregated reactions, and the server's toggle of e for the same party, the
\* client's groups are, as a set, the server's aggregated reactions; each group is
\* listed once and none has count 0.
C5_Mirror ==
    /\ view.sync = "confirmed" =>
          Range(view.reactions) = Aggregate(rows, view.messageId)
    /\ view.sync \in {"toggled", "confirmed"} =>
          /\ \A i \in DOMAIN view.reactions : view.reactions[i].count > 0
          /\ \A i, j \in DOMAIN view.reactions :
                i # j => view.reactions[i].emoji # view.reactions[j].emoji

\* C5 witness: the visitor put its reaction on the operator's emoji and the
\* server has executed the toggle.
C5_Witness ==
    /\ view.sync = "confirmed"
    /\ ~view.is_admin
    /\ lastResp.action = "added"
    /\ Len(view.reactions) = 1
    /\ view.reactions[1].count = 2


----------------------------------------------------------------------------
(* Pagination: the claims.                                                 *)

\* The messages of the conversation read, oldest first, and their timestamps.
Conv1 == ConvRows(table, 1)

TsOf(id) == (CHOOSE m \in table : m.id = id).created_at

DistinctTimestamps ==
    \A x, y \in Conv1 : x # y => x.created_at # y.created_at

\* The pages read so far, the oldest page first, as one list of ids.
RECURSIVE Chronicle(_)
Chronicle(pages) ==
    IF pages = <<>> THEN <<>>
    ELSE Chronicle(Tail(pages)) \o Head(pages).messages

\* The ids of the messages older than every message read up to page k.
OlderThanPage(k) ==
    LET read == UNION {Range(walk.pages[j].messages) : j \in 1..k}
    IN  {m.id : m \in {x \in Conv1 : \A id \in read : x.created_at < TsOf(id)}}

\* C8: with distinct timestamps, the initial read followed by backward reads from
\* the oldest message of the previous page returns every message of the
\* conversation exactly once; page k holds the min(L, N - (k-1)L) messages that
\* come next, in chronological order, and its hasMore says whether older
\* messages exist.
C8_PaginationCovers ==
    DistinctTimestamps =>
        LET L == Limit(walk.limitParam)
            N == Cardinality(Conv1)
            all == Chronicle(walk.pages)
        IN  /\ \A k \in DOMAIN walk.pages :
                 LET p == walk.pages[k]
                 IN  /\ Len(p.messages) = Min(L, Max(0, N - (k - 1) * L))
                     /\ \A i, j \in DOMAIN p.messages :
                           i < j => TsOf(p.messages[i]) < TsOf(p.messages[j])
                     /\ p.hasMore <=> (OlderThanPage(k) # {})
            /\ \A i, j \in DOMAIN all : i # j => all[i] # all[j]
            /\ Range(all) \subseteq {m.id : m \in Conv1}
            /\ walk.phase = "done" => all = Ids(OrderAsc(Conv1))

\* C8 witness: five messages read with page size 2 as pages of 2, 2 and 1 with
\* hasMore true, true, false (the 60 / 25 scenario, scaled).
C8_Witness ==
    /\ DistinctTimestamps
    /\ Cardinality(Conv1) = 5
    /\ Limit(walk.limitParam) = 2
    /\ walk.phase = "done"
    /\ Len(walk.pages) = 4
    /\ walk.pages[3].messages = <<1>>
    /\ walk.pages[1].hasMore /\ walk.pages[2].hasMore /\ ~walk.pages[3].hasMore

\* The messages of the conversation that no other message precedes.
OldestIds == {m.id : m \in {x \in Conv1 : \A y \in Conv1 : x.created_at <= y.created_at}}

\* C9: a backward read from the oldest message of the conversation returns no
\* message and hasMore = false; a backward read whose cursor is not a message of
\* the conversation fails with 400 Invalid cursor and returns no message.
C9_PaginationBoundary ==
    LET r == walk.last
    IN  r.before # NoCursor /\ r.status \in {200, 400} =>
          /\ r.before \in OldestIds =>
                r.status = 200 /\ r.count = 0 /\ ~r.hasMore
          /\ r.before \notin {m.id : m \in Conv1} =>
                r.status = 400 /\ r.error = "Invalid cursor" /\ r.count = 0
          /\ r.status = 400 => r.before \notin {m.id : m \in Conv1}

\* C9 witness: the walk reached the oldest message and read backward from it.
C9_Witness ==
    /\ walk.phase = "done"
    /\ walk.last.before \in OldestIds
    /\ Cardinality(Conv1) >= 3
    /\ walk.last.status = 200

\* C9 second witness: a cursor that is a message of the other conversation.
C9_WitnessForeign ==
    /\ walk.phase = "failed"
    /\ walk.last.status = 400
    /\ walk.last.before \in {m.id : m \in ConvRows(table, 2)}

\* ---- the visitor client (SpecSync)

\* Poll p returns in this step and its response is applied.
PollApplied(p) ==
    /\ pollOps[p].phase = "responded"
    /\ ~pollOps[p].cancelled
    /\ pollOps[p].resp.status = 200
    /\ pollOps'[p].phase = "idle"

\* The visitor sent content c exactly once.
SentOnce(c) == Cardinality({s \in DOMAIN sendOps : sendOps[s].content = c}) = 1

\* The positions of the visitor's entries with content c.
EntriesOf(list, c) == {i \in DOMAIN list : list[i].content = c /\ ~list[i].is_admin}

\* C1: when the visitor sent c once and a poll response that contains the
\* persisted message m (visitor's, content c) is applied, the local list then
\* holds exactly one entry of the visitor with content c, and it carries m's id.
C1_EchoCollapse ==
    [][\A p \in PollSlots, c \in Contents :
          LET data == pollOps[p].resp.messages
              ms == {data[i] : i \in EntriesOf(data, c)}
          IN  PollApplied(p) /\ SentOnce(c) /\ ms # {} =>
                 /\ Cardinality(EntriesOf(messages', c)) = 1
                 /\ \A i \in EntriesOf(messages', c) :
                       \A m \in ms : messages'[i].id = m.id]_vars

\* C1 witness: "a" was sent once and persisted, no send failed (so no refresh ran),
\* and the list shows the persisted message and no id-less entry; an operator
\* message of the same content is in the list too.
C1_Witness ==
    /\ Len(sendOps) = 1
    /\ sendOps[1].content = "a" /\ sendOps[1].status = 200
    /\ currentUser
    /\ \E i \in DOMAIN messages :
          messages[i].id # NoId /\ messages[i].content = "a" /\ ~messages[i].is_admin
    /\ \E i \in DOMAIN messages : messages[i].content = "a" /\ messages[i].is_admin
    /\ \A i \in DOMAIN messages : messages[i].id # NoId

\* C2: applying a poll response all of whose ids are already in the local list
\* leaves the list as it was.
C2_IdempotentMerge ==
    [][\A p \in PollSlots :
          LET data == pollOps[p].resp.messages
          IN  PollApplied(p) /\ (\A i \in DOMAIN data : data[i].id \in ExistingIds(messages))
                 => messages' = messages]_vars

\* An operation started before the visitor signed out returns in this step.
ReturnsAfterLeaving ==
    \/ bootstrapOp.left /\ bootstrapOp.phase = "responded" /\ bootstrapOp'.phase = "idle"
    \/ \E p \in PollSlots :
          pollOps[p].left /\ pollOps[p].phase = "responded" /\ pollOps'[p].phase = "idle"
    \/ loadMoreOp.left /\ loadMoreOp.phase = "responded" /\ loadMoreOp'.phase = "idle"
    \/ \E s \in DOMAIN sendOps :
          /\ sendOps[s].left /\ sendOps[s].phase = "refreshed"
          /\ sendOps'[s].phase = "finished"

\* C6: the response of an operation started before the sign-out changes neither
\* the message list nor the hasMore flag nor the typing flag.
C6_Cancellation ==
    [][ReturnsAfterLeaving =>
          /\ messages' = messages
          /\ hasMoreMessages' = hasMoreMessages
          /\ isAdminTyping' = isAdminTyping]_vars

\* C7: the entries with an id are in strictly increasing creation order (hence no
\* id twice).
C7_OrderPreserved ==
    \A i, j \in DOMAIN messages :
        i < j /\ messages[i].id # NoId /\ messages[j].id # NoId =>
            messages[i].created_at < messages[j].created_at

\* C10: once a send whose POST failed has run to its end, the list holds no
\* id-less entry of its content (no other send had that content).
C10_NoDangling ==
    \A s \in DOMAIN sendOps :
        /\ sendOps[s].phase = "finished"
        /\ sendOps[s].status # 200
        /\ SentOnce(sendOps[s].content)
        => ~\E i \in DOMAIN messages :
               messages[i].id = NoId /\ messages[i].content = sendOps[s].content

\* ---- bootstrap (SpecBoot)

\* C11: every visitor owns at most one conversation, and a bootstrap that
\* answered 200 returned the id of the visitor's one conversation.
C11_OneConversation ==
    /\ \A u \in BootUsers : Cardinality(UserConversations(conversations, u)) <= 1
    /\ \A r \in BootSlots :
          bootReqs[r].pc = "done" /\ bootReqs[r].status = 200 =>
              UserConversations(conversations, bootReqs[r].user)
                  = {[id |-> bootReqs[r].conversationId, user_id |-> bootReqs[r].user]}

\* ---- typing (SpecTyping)

\* C12: a read reports the party as typing exactly when the party has a
\* typing row written less than 3 seconds before the read.
C12_TypingDecay ==
    typingRead.typing <=>
        (typingRead.age # NoRow /\ typingRead.age < TYPING_INTERVAL_MS)

\* C12 witness: 10 seconds after the heartbeat the row still exists and the
\* read says not typing.
C12_Witness ==
    typingRead.age = 10000 /\ ~typingRead.typing /\ typingStatus # {}

\* C12 second witness: 2.9 seconds after the heartbeat the read says typing.
C12_WitnessFresh ==
    typingRead.age = 2900 /\ typingRead.typing

\* ---- the toggle's postcondition (SpecMirror)

\* The rows that are not of the party of request q on its message.
RowsOfOthers(rs, q) == rs \ PartyRows(rs, q.messageId, q.user, q.is_admin)

\* C13: a toggle of emoji e, run alone: the lookup takes the remove branch exactly
\* when the party's reaction on the message is e; the remove branch deletes that
\* one row, answers 'removed' and leaves the party without a reaction; the other
\* branch deletes the party's reactions, inserts one row, answers 'added' and
\* leaves e as the party's only reaction; no step touches a row of the other
\* party.
C13_TogglePostcondition ==
    [][LET q == reqs[1]
           mine == PartyRows(rows', q.messageId, q.user, q.is_admin)
       IN  /\ RowsOfOthers(rows', q) = RowsOfOthers(rows, q)
           /\ q.pc = "select" /\ reqs'[1].pc # "select" =>
                 (reqs'[1].pc = "remove" <=>
                     \E x \in PartyRows(rows, q.messageId, q.user, q.is_admin) :
                         x.emoji = q.emoji)
           /\ q.pc = "remove" /\ reqs'[1].pc = "idle" =>
                 /\ lastResp'.status = 200 /\ lastResp'.action = "removed"
                 /\ mine = {}
                 /\ rows' \subseteq rows /\ Cardinality(rows \ rows') = 1
           /\ q.pc = "insert" /\ reqs'[1].pc = "idle" =>
                 /\ lastResp'.status = 200 /\ lastResp'.action = "added"
                 /\ Cardinality(mine) = 1
                 /\ \A x \in mine : x.emoji = q.emoji
                 /\ rows \subseteq rows' /\ Cardinality(rows' \ rows) = 1]_vars

\* C13 witness: the visitor's toggle of their own emoji has returned 'removed';
\* the operator's reaction is still there and the visitor has none.
C13_Witness ==
    /\ AllIdle
    /\ lastResp.action = "removed"
    /\ Cardinality(rows) = 1
    /\ \A x \in rows : x.is_admin /\ x.emoji = "joy"

\* Every reply in the store names a message of its own conversation that was
\* inserted before it (ids are numbered in insertion order).
ReplyIntegrity(ps) ==
    \A m \in ps :
        m.reply_to_id # NoReply =>
            \E t \in ps : /\ t.id = m.reply_to_id
                          /\ t.conversation_id = m.conversation_id
                          /\ t.id < m.id

\* C14: reply-target integrity. Every stored message with a reply target references
\* a message that already existed in the same conversation when the reply was
\* created; and a create-message request (visitor text, visitor image, operator
\* reply) that reaches the reply validation with a replyToId that is not the id of
\* a message of the target conversation ends with 400 'Reply target not found',
\* having inserted nothing.
C14_ReplyTargetIntegrity ==
    [][/\ ReplyIntegrity(posts')
       /\ \A r \in WriteSlots :
             /\ writeReqs[r].pc = "target"
             /\ writeReqs'[r] # writeReqs[r]
             /\ writeReqs[r].replyToId # NoReply
             /\ writeReqs[r].replyToId
                    \notin {m.id : m \in ConvRows(posts, writeReqs[r].conv)}
             => /\ writeReqs'[r].pc = "done"
                /\ writeReqs'[r].status = 400
                /\ writeReqs'[r].error = "Reply target not found"
                /\ writeReqs'[r].message = NoReply
                /\ posts' = posts]_vars

\* A reply is stored, its conversation is not the only one with messages, and a
\* request has just been refused for its reply target.
C14_Witness ==
    /\ \E m \in posts : m.reply_to_id # NoReply
    /\ \A c \in Convs : ConvRows(posts, c) # {}
    /\ \E r \in WriteSlots : writeReqs[r].error = "Reply target not found"

\* C15: reply summary on read. In every successful read response (visitor GET in
\* its three modes, operator GET) each returned message with a reply target
\* carries a reply_to whose id, content and is_admin are those of the referenced
\* message, each returned message without one carries reply_to = null, and
\* summaries are computed for message ids of the returned page only.
C15_ReplySummary ==
    /\ readResp.summarized \subseteq Range(Ids(readResp.messages))
    /\ readResp.status = 200 =>
          \A i \in DOMAIN readResp.messages :
              LET msg == readResp.messages[i]
                  row == CHOOSE m \in posts : m.id = msg.id
              IN  /\ \E m \in posts : m.id = msg.id
                  /\ IF row.reply_to_id = NoReply
                     THEN msg.reply_to = NoReplyTo
                     ELSE \E t \in posts :
                             /\ t.id = row.reply_to_id
                             /\ msg.reply_to = [id |-> t.id, content |-> t.content,
                                                is_admin |-> t.is_admin]

\* A page that holds a reply by one party to a message of the other that lies
\* outside the page, next to a message that replies to nothing.
C15_Witness ==
    /\ readResp.status = 200
    /\ \E i, j \in DOMAIN readResp.messages :
          /\ readResp.messages[i].reply_to # NoReplyTo
          /\ readResp.messages[i].reply_to.is_admin # readResp.messages[i].is_admin
          /\ readResp.messages[i].reply_to.id \notin Range(Ids(readResp.messages))
          /\ readResp.messages[j].reply_to = NoReplyTo

\* The tables a visitor's request must leave alone when it names a conversation
\* of somebody else.
Records == <<posts, rows, typingStatus>>

\* C16: conversation ownership. A visitor's read-messages, create-message,
\* upload-image, set-typing or toggle-reaction request that carries a session and a
\* well-formed body and names a conversation (or a message of a conversation) the
\* visitor does not own ends with 404, returns none of the conversation's
\* messages, and changes no message, reaction or typing record; a row is inserted
\* into a conversation, and a reaction row is changed, only by a request that
\* passed the ownership check.
C16_Ownership ==
    [][/\ \* read-messages
          /\ readResp' # readResp
          /\ readResp'.caller # NoUser
          /\ ConvOwner(readResp'.conv) # readResp'.caller
          => /\ readResp'.status = 404
             /\ readResp'.messages = <<>>
             /\ Records' = Records
       /\ \* create-message, upload-image
          \A r \in WriteSlots :
             /\ /\ writeReqs[r].pc = "conversation"
                /\ writeReqs'[r] # writeReqs[r]
                /\ ConvOwner(writeReqs[r].conv) # writeReqs[r].caller
                => /\ writeReqs'[r].pc = "done"
                   /\ writeReqs'[r].status = 404
                   /\ writeReqs'[r].message = NoReply
                   /\ Records' = Records
             /\ /\ writeReqs'[r].pc \in {"target", "insert", "inserted"}
                /\ writeReqs'[r].kind # "reply"
                => ConvOwner(writeReqs'[r].conv) = writeReqs'[r].caller
       /\ \A m \in posts' \ posts :
             \E r \in WriteSlots :
                /\ writeReqs[r].pc = "insert"
                /\ writeReqs[r].conv = m.conversation_id
                /\ writeReqs[r].kind = "reply"
                      \/ ConvOwner(m.conversation_id) = writeReqs[r].caller
       /\ \* set-typing
          /\ typingPost' # typingPost
          /\ ~typingPost'.is_admin
          /\ typingPost'.caller # NoUser
          /\ ConvOwner(TypingConv) # typingPost'.caller
          => /\ typingPost'.status = 404
             /\ Records' = Records
       /\ \* toggle-reaction
          /\ \A u \in Users, m \in ReactMsgs, e \in ALLOWED_EMOJIS :
                MsgOwner(m) # u =>
                   ~ToggleAccepted(FALSE, u, m, e) /\ ToggleError(FALSE, u, m, e) = 404
          /\ \A r \in ReqSlots :
                reqs'[r].pc # "idle" /\ ~reqs'[r].is_admin =>
                   MsgOwner(reqs'[r].messageId) = reqs'[r].user
          /\ lastResp'.status = 404 /\ lastResp' # lastResp => Records' = Records
          /\ rows' # rows =>
                \E r \in ReqSlots :
                   /\ reqs[r].pc # "idle"
                   /\ reqs[r].is_admin \/ MsgOwner(reqs[r].messageId) = reqs[r].user]_vars

\* Every table holds a row of the owner, and the last read, create, typing and
\* reaction request to return was refused with 404.
C16_Witness ==
    /\ posts # {} /\ rows # {} /\ typingStatus # {}
    /\ readResp.status = 404 /\ readResp.caller # NoUser
    /\ \E r \in WriteSlots : writeReqs[r].pc = "done" /\ writeReqs[r].status = 404
    /\ typingPost.status = 404
    /\ lastResp.status = 404

\* C17: push is fire-and-forget. A create-message request that passed the
\* handler's checks and names an existing conversation inserts its message; the
\* handler then starts the notification and returns 200 with that message while
\* the notification is still pending; and whether the notification is delivered,
\* fails or never settles, the response and the stored message stay as they were.
C17_FireAndForget ==
    [][\A r \in WriteSlots :
          /\ /\ writeReqs[r].pc = "insert"
             /\ writeReqs[r].conv \in Convs
             /\ writeReqs'[r] # writeReqs[r]
             => /\ writeReqs'[r].pc = "inserted"
                /\ \E m \in posts' \ posts : m.id = writeReqs'[r].message
          /\ /\ writeReqs[r].pc = "inserted"
             /\ writeReqs'[r] # writeReqs[r]
             => /\ writeReqs'[r].pc = "done"
                /\ writeReqs'[r].status = 200
                /\ writeReqs'[r].message = writeReqs[r].message
                /\ writeReqs'[r].push = "pending"
                /\ \E m \in posts' : m.id = writeReqs'[r].message
          /\ /\ writeReqs[r].push = "pending"
             /\ writeReqs'[r].push \in {"delivered", "failed"}
             => /\ writeReqs'[r] = [writeReqs[r] EXCEPT !.push = writeReqs'[r].push]
                /\ posts' = posts
          /\ writeReqs'[r].push # "none"
             => /\ writeReqs'[r].pc = "done"
                /\ writeReqs'[r].status = 200
                /\ \E m \in posts' : m.id = writeReqs'[r].message]_vars

\* A request was answered 200 with its stored message, and its notification has
\* failed since.
C17_Witness ==
    \E r \in WriteSlots :
        /\ writeReqs[r].pc = "done"
        /\ writeReqs[r].status = 200
        /\ writeReqs[r].push = "failed"
        /\ \E m \in posts : m.id = writeReqs[r].message /\ m.is_admin

\* created_at of the message the next poll names as its cursor.
CursorTimestamp(prev) ==
    (CHOOSE m \in Range(prev) : m.id = LastMessageId(prev)).created_at

\* C18: eventual delivery. A poll with a cursor returns only messages whose
\* created_at is greater than the cursor's, and the cursor's created_at never
\* decreases; so a message that is to reach the list of a client that keeps
\* polling must, from its commit on, be in the list or lie ahead of the cursor.
\* Every committed message is in the local list, or the list has no cursor yet,
\* or the message's created_at is greater than the cursor's.
C18_EventualDelivery ==
    \A m \in store :
        \/ m.id \in ExistingIds(messages)
        \/ LastMessageId(messages) = NoCursor
        \/ m.created_at > CursorTimestamp(messages)

\* The list holds the id-less entry of a send whose POST has not returned.
UnconfirmedSend ==
    \E s \in DOMAIN sendOps :
        /\ sendOps[s].phase = "posting"
        /\ \E i \in DOMAIN messages :
              messages[i].id = NoId /\ messages[i].content = sendOps[s].content

\* C19: while the list holds an optimistic entry whose send has not round-tripped
\* and the 3 s window after the optimistic update has not elapsed, applying the
\* response of a cursor-less read does not replace the list: the list stays as it
\* was when that response carries no messages (the path-replacing branch), also
\* when the read was issued before the send.
C19_NoClobber ==
    [][\A p \in PollSlots :
          /\ PollApplied(p)
          /\ pollOps[p].cursor = NoCursor
          /\ Len(pollOps[p].resp.messages) = 0
          /\ recentOptimistic
          /\ UnconfirmedSend
          => messages' = messages]_vars

\* C20: polling continues during the suppression window. For new messages of the
\* other party to keep arriving while the user performs optimistic updates less
\* than 3 s apart, the interval callback must be able to issue the forward poll at
\* every tick: whenever the visitor is signed in with a conversation, the list has
\* a cursor and a poll slot is free, the poll can be issued.
C20_PollingContinues ==
    \A p \in PollSlots :
        /\ currentUser
        /\ conversationId # NoConv
        /\ LastMessageId(messages) # NoCursor
        /\ pollOps[p].phase = "idle"
        /\ \A q \in PollSlots : q < p => pollOps[q].phase # "idle"
        => ENABLED PollTick(p)

\* The positions of the id-less entries of the visitor with content c.
OptimisticOf(list, c) == {i \in EntriesOf(list, c) : list[i].id = NoId}

\* C21: collapse heuristic misfire. When the local list holds two id-less entries
\* of the visitor with the same content c and the poll response applied carries
\* exactly one message new to the list with content c and the visitor's flag, the
\* merge drops both id-less entries and appends the new messages: the list then
\* has no id-less entry of content c, and the confirmed entries of before
\* followed by the new messages are what is left of c.
C21_CollapseMisfire ==
    [][\A p \in PollSlots, c \in Contents :
          LET newMessages == NewMessages(messages, pollOps[p].resp.messages)
          IN  /\ PollApplied(p)
              /\ Cardinality(OptimisticOf(messages, c)) = 2
              /\ Cardinality(EntriesOf(newMessages, c)) = 1
              => /\ OptimisticOf(messages', c) = {}
                 /\ Cardinality(EntriesOf(messages', c)) =
                       Cardinality(EntriesOf(messages, c)) - 2 + 1
                 /\ SubSeq(messages', Len(messages') - Len(newMessages) + 1,
                           Len(messages')) = newMessages]_vars

\* C21 witness: "a" was sent twice, the first POST stored one message and the
\* second has not reached the server; the list shows the one stored message and
\* no id-less entry.
C21_Witness ==
    /\ Len(sendOps) = 2
    /\ sendOps[1].content = "a" /\ sendOps[2].content = "a"
    /\ sendOps[1].status = 200 /\ sendOps[2].phase = "posting"
    /\ Cardinality(store) = 1
    /\ Len(messages) = 1
    /\ messages[1].id # NoId /\ messages[1].content = "a" /\ ~messages[1].is_admin

\* C22: reactions converge to the store. With at most MaxToggles toggles, the
\* server answering and the page polling on, from some point on the reaction
\* groups the visitor's list shows on the message are the groups the server
\* aggregates for it.
C22_ReactionsConverge ==
    <>[](ShownMsg \in ExistingIds(messages)
            => Range(shown) = Aggregate(rows, ShownMsg))

\* The entries of the list that have an id.
Confirmed(list) == {m \in Range(list) : m.id # NoId}

\* C23: contiguity of the local list. No message of the store whose position in
\* server order (created_at) lies between two entries of the list that have an id
\* is missing from the list.
C23_Contiguous ==
    \A m \in store :
        (\E lo, hi \in Confirmed(messages) :
            lo.created_at < m.created_at /\ m.created_at < hi.created_at)
        => m.id \in ExistingIds(messages)

\* C24: hasMore is accurate when no read has failed. While the session is valid
\* (every read so far was answered 200), hasMore = false means that no message of
\* the conversation is older than the oldest entry of the list that has an id:
\* nothing is left that the user can no longer load.
C24_HasMoreAccurate ==
    session /\ conversationId # NoConv /\ ~hasMoreMessages =>
        \A m \in store : \A e \in Confirmed(messages) :
            (\A f \in Confirmed(messages) : e.created_at <= f.created_at)
            => m.created_at >= e.created_at

\* A backward read is issued in this step (a sign-out only marks the one in
\* flight).
LoadMoreIssued ==
    /\ loadMoreOp'.phase = "requested"
    /\ loadMoreOp' # loadMoreOp
    /\ loadMoreOp' # Leave(loadMoreOp)

LoadMoreReturns == loadMoreOp.phase = "responded" /\ loadMoreOp'.phase = "idle"

\* Pagination is closed: hasMore is false and neither a backward read nor the
\* bootstrap is in flight.
PaginationClosed ==
    /\ ~hasMoreMessages
    /\ loadMoreOp.phase = "idle"
    /\ bootstrapOp.phase = "idle"

Emitted(b) == Len(signals') = Len(signals) + 1 /\ signals'[Len(signals')].by = b

\* C27: typing heartbeat protocol. Two consecutive typing=true signals are at
\* least 1 s apart; a timeout is always set to 2 s after the keystroke that sets
\* it and emits typing=false exactly when it is due; a send leaves no timeout
\* pending and emits typing=false at once, and no timeout emits within 2 s after
\* a send unless a keystroke after the send set it (then it is 2 s after that
\* keystroke, hence not earlier than 2 s after the send); and whenever no timeout
\* is pending the last signal emitted is typing=false.
C27_Heartbeat ==
    [][/\ \A i, j \in DOMAIN signals' :
             i < j /\ signals'[i].isTyping /\ signals'[j].isTyping
             => signals'[j].at - signals'[i].at >= TYPING_DEBOUNCE_MS
       /\ typingTimer' # typingTimer /\ typingTimer' # 0
             => typingTimer' = hbNow + TYPING_QUIET_MS
       /\ Emitted("timeout") =>
             /\ typingTimer # 0 /\ hbNow = typingTimer
             /\ ~signals'[Len(signals')].isTyping
       /\ typingTimer # 0 => hbNow' <= typingTimer
       /\ Emitted("send") =>
             /\ typingTimer' = 0
             /\ ~signals'[Len(signals')].isTyping
             /\ signals'[Len(signals')].at = hbNow
       /\ \A i, j \in DOMAIN signals' :
             i < j /\ signals'[i].by = "send" /\ signals'[j].by = "timeout"
             => signals'[j].at >= signals'[i].at + TYPING_QUIET_MS
       /\ typingTimer' = 0 /\ signals' # <<>>
             => ~signals'[Len(signals')].isTyping]_vars

\* C27 witness: typing=true, then a send's typing=false before the timeout was
\* due, then after more typing a typing=false by the timeout; nothing is pending.
C27_Witness ==
    /\ Len(signals) = 4
    /\ signals[1].isTyping /\ signals[1].by = "key"
    /\ signals[2].by = "send" /\ signals[2].at < signals[1].at + TYPING_QUIET_MS
    /\ signals[3].isTyping
    /\ signals[4].by = "timeout"
    /\ typingTimer = 0

\* ---- the rate limit (SpecLimit)

\* The allowed requests among those logged in s within the window that ends at t
\* (t included, t - RATE_LIMIT_WINDOW_MS excluded).
AllowedWithin(s, t) ==
    {i \in DOMAIN s : s[i] <= t /\ t - s[i] < RATE_LIMIT_WINDOW_MS}

\* checkRateLimit is called in this step.
Checked == rateCheck'.n = rateCheck.n + 1

\* C28: message rate limit. At most LimitMax allowed requests lie in any window
\* of RATE_LIMIT_WINDOW_MS; a denied request is not recorded (the entry of the
\* map and the allowed requests stay as they were); and a request is denied
\* exactly when LimitMax allowed requests lie within the window before it.
C28_RateLimit ==
    [][Checked =>
          /\ \A i \in DOMAIN allowedAt' :
                Cardinality(AllowedWithin(allowedAt', allowedAt'[i])) <= LimitMax
          /\ ~rateCheck'.allowed =>
                /\ userMessageTimestamps' = userMessageTimestamps
                /\ allowedAt' = allowedAt
          /\ ~rateCheck'.allowed <=>
                Cardinality(AllowedWithin(allowedAt, rlNow)) >= LimitMax
          /\ rateCheck'.allowed => allowedAt' = Append(allowedAt, rlNow)]_vars

\* C28 witness: LimitMax requests were allowed within one window, a request was
\* denied since, and the last request, a window after the first, was allowed.
C28_Witness ==
    /\ Len(allowedAt) = LimitMax + 1
    /\ allowedAt[LimitMax] - allowedAt[1] < RATE_LIMIT_WINDOW_MS
    /\ rateCheck.n > LimitMax + 1
    /\ rateCheck.allowed
    /\ rateCheck.at = allowedAt[LimitMax + 1]

\* C29: Retry-After is sufficient. The page issues a send only while its
\* countdown is zero; a countdown seeded with r has made r - value ticks, each a
\* second or more after the one before, so it reaches zero after r ticks; and
\* the first send issued after a countdown ran out, with no other create-message
\* request of the visitor since the 429, is allowed by checkRateLimit.
C29_RetryAfterSufficient ==
    [][/\ limitSend.phase = "idle" /\ limitSend'.phase = "posting"
             => countdown.value = 0
       /\ countdown'.seeded =>
             /\ countdown'.value + countdown'.ticks = countdown'.seed
             /\ countdown'.seed >= 1
       /\ countdown'.ticks = countdown.ticks + 1 =>
             /\ rlNow >= countdown.tickAt
             /\ countdown'.tickAt = rlNow + 1000
       /\ limitSend.phase = "posting" /\ limitSend.first
          /\ limitSend'.phase = "responded"
             => limitSend'.status = 200 /\ rateCheck'.allowed]_vars

\* C29 witness: a send was denied with Retry-After: 2, the countdown made its two
\* ticks, and the first send after it was allowed with LimitMax requests of the
\* window before still recorded.
C29_Witness ==
    /\ limitSend.phase = "responded"
    /\ limitSend.first
    /\ limitSend.status = 200
    /\ Len(allowedAt) = LimitMax + 1
    /\ rateCheck.n = LimitMax + 2
    /\ rateCheck.at - allowedAt[1] < 2 * RATE_LIMIT_WINDOW_MS

\* A step in which the create-message request of slot r ends with a rejection.
Rejected(r) ==
    /\ writeReqs'[r] # writeReqs[r]
    /\ writeReqs'[r].pc = "done"
    /\ writeReqs'[r].status # 200

\* C30: a rejected create-message request (401, 429, 400 for a missing
\* conversationId, an empty, too long or disallowed content, 404 for a
\* conversation not owned, 400 for a reply target not found) leaves the store
\* unchanged: the step that rejects it changes neither the messages nor any
\* conversation's last-activity timestamp, the request has inserted no message
\* before, a message is only inserted by a request that is past every check, the
\* timestamp is only bumped by a request that answers 200; and every persisted
\* visitor text message has trimmed content of 1 to MAX_MESSAGE_LENGTH characters.
C30_RejectedLeavesStore ==
    [][/\ \A r \in WriteSlots :
            Rejected(r) => /\ posts' = posts
                           /\ lastActivity' = lastActivity
                           /\ writeReqs'[r].message = NoReply
       /\ posts' # posts =>
            \E r \in WriteSlots : /\ writeReqs[r].pc = "insert"
                                  /\ writeReqs'[r].pc = "inserted"
       /\ lastActivity' # lastActivity =>
            \E r \in WriteSlots : /\ writeReqs[r].pc = "inserted"
                                  /\ writeReqs'[r].status = 200
       /\ \A m \in posts' :
            ~m.is_admin /\ ~m.image_url =>
                /\ Trim(m.content) = m.content
                /\ Len(m.content) \in 1..MAX_MESSAGE_LENGTH]_vars

\* A request was rejected for its length after another one was stored.
C30_Witness ==
    /\ posts # {}
    /\ \E c \in Convs : lastActivity[c] > 0
    /\ \E r \in WriteSlots : /\ writeReqs[r].pc = "done"
                             /\ writeReqs[r].status = 400
                             /\ writeReqs[r].error = "Message exceeds character limit"
=============================================================================
